---- MODULE Spec2Model ----
(***************************************************************************)
(* Model of package sign (src/sign/sign.go): Ed25519 key files protected   *)
(* by a scrypt keystream, signatures over the SHA-512 digest of a file,    *)
(* and the temp-file-and-rename writer that puts them on disk.             *)
(*                                                                         *)
(* Bytes are the integers 0..255.  Text is a sequence of ASCII codes.      *)
(* The library primitives the package calls (SHA-256, SHA-512, scrypt,     *)
(* Ed25519) are replaced by small deterministic functions with the same    *)
(* interface: fixed output length, and no collisions on the inputs the     *)
(* model draws.  Their lengths are scaled down; everything the package     *)
(* itself does (XOR, base64, the record layout, the order of file system   *)
(* calls) is computed as the code computes it.                             *)
(***************************************************************************)
EXTENDS Integers, Sequences, FiniteSets, TLC

\* ------------------------------------------------------------------------
\* Bounds of the model
\* ------------------------------------------------------------------------

\* Length of an Ed25519 seed and of a public key (32 in the library).
SeedSize == 1

\* Length of the random salt (32 at sign.go:249).
SaltSize == 1

\* Longest content handed to writeFile in the step-by-step specification.
MaxFileLen == 2

PublicKeySize == SeedSize

PrivateKeySize == SeedSize + PublicKeySize

\* Output lengths of the two hashes; wide enough that the stand-in below
\* keeps every input of the model apart.
Size256 == SaltSize + PrivateKeySize + 3

Size512 == 2 * Size256

\* pkh[:16] of a 32 byte hash: half of it.
HintSize == Size256 \div 2

SignatureSize == Size512 + 2 * PublicKeySize + 2

\* ------------------------------------------------------------------------
\* Bytes
\* ------------------------------------------------------------------------

Byte == 0..255

Max2(a, b) == IF a >= b THEN a ELSE b

Min2(a, b) == IF a <= b THEN a ELSE b

RECURSIVE XorByte(_, _)
\* a ^ b on two bytes, bit by bit
XorByte(a, b) ==
    IF a = 0 /\ b = 0 THEN 0
    ELSE (((a % 2) + (b % 2)) % 2) + 2 * XorByte(a \div 2, b \div 2)

\* a loop that stops one byte early
XorBytesShort(a, k) == [i \in 1..(Len(a) - 1) |-> XorByte(a[i], k[i])]

\* for i := 0; i < len(a); i++ { out[i] = a[i] ^ k[i] }
XorBytes(a, k) == [i \in 1..Len(a) |-> XorByte(a[i], k[i])]

\* subtle.ConstantTimeCompare(x, y) == 1
ConstantTimeEq(x, y) ==
    /\ Len(x) = Len(y)
    /\ \A i \in 1..Len(x) : x[i] = y[i]

RECURSIVE SumAt(_, _, _)
\* x[j] + x[j+step] + ... (mod 256)
SumAt(x, j, step) ==
    IF j > Len(x) THEN 0 ELSE (x[j] + SumAt(x, j + step, step)) % 256

\* ------------------------------------------------------------------------
\* Stand-ins for the hash functions: a fixed-length output that holds the
\* length of the input and its bytes, shifted per position and per hash.
\* Inputs of up to n-1 bytes never collide; longer ones fold.
\* ------------------------------------------------------------------------

Digest(tag, x, n) ==
    [i \in 1..n |->
        LET raw == IF i = 1 THEN Len(x) % 256 ELSE SumAt(x, i - 1, n - 1)
        IN  (raw + tag + 31 * i) % 256]

\* sha256.Sum256 / sha256.New().Sum
Sum256(x) == Digest(11, x, Size256)

\* sha512.Sum512 / sha512.New().Sum
Sum512(x) == Digest(73, x, Size512)

\* ------------------------------------------------------------------------
\* base64.StdEncoding (RFC 4648, with padding), on ASCII codes
\* ------------------------------------------------------------------------

PadChar == 61

\* index 0..63 -> 'A'..'Z' 'a'..'z' '0'..'9' '+' '/'
B64Char(v) ==
    IF v < 26 THEN 65 + v
    ELSE IF v < 52 THEN 97 + (v - 26)
    ELSE IF v < 62 THEN 48 + (v - 52)
    ELSE IF v = 62 THEN 43 ELSE 47

\* the inverse; -1 for a character outside the alphabet
B64Val(c) ==
    IF c >= 65 /\ c <= 90 THEN c - 65
    ELSE IF c >= 97 /\ c <= 122 THEN c - 97 + 26
    ELSE IF c >= 48 /\ c <= 57 THEN c - 48 + 52
    ELSE IF c = 43 THEN 62
    ELSE IF c = 47 THEN 63 ELSE -1

RECURSIVE EncodeToString(_)
\* base64.StdEncoding.EncodeToString
EncodeToString(b) ==
    IF Len(b) = 0 THEN << >>
    ELSE IF Len(b) = 1 THEN
        << B64Char(b[1] \div 4), B64Char((b[1] % 4) * 16), PadChar, PadChar >>
    ELSE IF Len(b) = 2 THEN
        << B64Char(b[1] \div 4),
           B64Char((b[1] % 4) * 16 + (b[2] \div 16)),
           B64Char((b[2] % 16) * 4), PadChar >>
    ELSE
        << B64Char(b[1] \div 4),
           B64Char((b[1] % 4) * 16 + (b[2] \div 16)),
           B64Char((b[2] % 16) * 4 + (b[3] \div 64)),
           B64Char(b[3] % 64) >> \o EncodeToString(SubSeq(b, 4, Len(b)))

\* one quantum of four characters; last says whether padding may appear
DecodeQuantum(q, last) ==
    LET v1 == B64Val(q[1])
        v2 == B64Val(q[2])
        v3 == B64Val(q[3])
        v4 == B64Val(q[4])
    IN  IF v1 < 0 \/ v2 < 0 THEN [err |-> TRUE, out |-> << >>]
        ELSE IF q[3] = PadChar THEN
            IF last /\ q[4] = PadChar
            THEN [err |-> FALSE, out |-> << v1 * 4 + (v2 \div 16) >>]
            ELSE [err |-> TRUE, out |-> << >>]
        ELSE IF v3 < 0 THEN [err |-> TRUE, out |-> << >>]
        ELSE IF q[4] = PadChar THEN
            IF last
            THEN [err |-> FALSE,
                  out |-> << v1 * 4 + (v2 \div 16),
                             (v2 % 16) * 16 + (v3 \div 4) >>]
            ELSE [err |-> TRUE, out |-> << >>]
        ELSE IF v4 < 0 THEN [err |-> TRUE, out |-> << >>]
        ELSE [err |-> FALSE,
              out |-> << v1 * 4 + (v2 \div 16),
                         (v2 % 16) * 16 + (v3 \div 4),
                         (v3 % 4) * 64 + v4 >>]

RECURSIVE DecodeString(_)
\* base64.StdEncoding.DecodeString: [err, out]
DecodeString(s) ==
    IF Len(s) = 0 THEN [err |-> FALSE, out |-> << >>]
    ELSE IF Len(s) < 4 THEN [err |-> TRUE, out |-> << >>]
    ELSE
        LET q    == DecodeQuantum(SubSeq(s, 1, 4), Len(s) = 4)
            rest == DecodeString(SubSeq(s, 5, Len(s)))
        IN  IF q.err \/ rest.err THEN [err |-> TRUE, out |-> << >>]
            ELSE [err |-> FALSE, out |-> q.out \o rest.out]

\* ------------------------------------------------------------------------
\* Decimal text of the uint32 cost parameters in the YAML record
\* ------------------------------------------------------------------------

RECURSIVE Itoa(_)
Itoa(n) ==
    IF n < 10 THEN << 48 + n >> ELSE Itoa(n \div 10) \o << 48 + (n % 10) >>

IsDigits(s) == Len(s) > 0 /\ Len(s) <= 9 /\ \A i \in 1..Len(s) : s[i] >= 48 /\ s[i] <= 57

RECURSIVE Atoi(_)
Atoi(s) ==
    IF Len(s) = 0 THEN 0
    ELSE 10 * Atoi(SubSeq(s, 1, Len(s) - 1)) + (s[Len(s)] - 48)

\* ------------------------------------------------------------------------
\* Stand-in for scrypt.Key
\* ------------------------------------------------------------------------

RECURSIVE IsPow2(_)
IsPow2(n) == IF n = 1 THEN TRUE ELSE IF n % 2 = 1 THEN FALSE ELSE IsPow2(n \div 2)

RECURSIVE WSum(_, _)
\* 1*x[1] + 2*x[2] + ... (mod 256)
WSum(x, i) == IF i > Len(x) THEN 0 ELSE (i * x[i] + WSum(x, i + 1)) % 256

\* scrypt.Key(password, salt, N, r, p, keyLen): an error for a bad N,
\* otherwise keyLen bytes that depend on every argument; a shorter output
\* is a prefix of a longer one, as with PBKDF2.
ScryptKey(password, salt, N, r, p, keyLen) ==
    IF N <= 1 \/ ~IsPow2(N) THEN [err |-> TRUE, out |-> << >>]
    ELSE
        LET code == (WSum(password, 1) + 16 * WSum(salt, 1)
                       + (N % 251) + 3 * r + 5 * p) % 256
        IN  [err |-> FALSE,
             out |-> [i \in 1..keyLen |-> (code + 89 * (i - 1)) % 256]]

\* ------------------------------------------------------------------------
\* Stand-in for golang.org/x/crypto/ed25519
\* ------------------------------------------------------------------------

\* the public key that belongs to a seed
DerivePublic(seed) == [i \in 1..Len(seed) |-> (5 * seed[i] + 3) % 256]

\* Ed.GenerateKey: the private key is seed || public key
GenerateKey(seed) ==
    [pub |-> DerivePublic(seed), priv |-> seed \o DerivePublic(seed)]

\* Ed.PrivateKey.Sign: the signature binds the seed's public key, the
\* public half stored in the private key, and the message.
EdSign(priv, msg) ==
    Digest(137,
           DerivePublic(SubSeq(priv, 1, SeedSize))
             \o SubSeq(priv, SeedSize + 1, PrivateKeySize) \o msg,
           SignatureSize)

\* Ed.Verify on a public key of the right length
EdVerify(pub, msg, sig) ==
    /\ Len(sig) = SignatureSize
    /\ sig = Digest(137, pub \o pub \o msg, SignatureSize)

\* ------------------------------------------------------------------------
\* The file system: a path holds nothing, a regular file or a directory
\* ------------------------------------------------------------------------

NoFile == [kind |-> "none", data |-> << >>, mode |-> 0]

Dir == [kind |-> "dir", data |-> << >>, mode |-> 0]

RegFile(d, m) == [kind |-> "file", data |-> d, mode |-> m]

\* permission bits 0600 and 0644
ModeOwner == 384

ModeWorld == 420

\* a writer that works on the target itself
TmpNameInPlace(fn) == fn

\* tmp := fmt.Sprintf("%s.tmp", fn)
TmpName(fn) == fn \o ".tmp"

\* unlink(f): a stat that finds a non-regular file panics; a regular file
\* is removed and the result of os.Remove is dropped (rmOK: it worked).
Unlink(fsys, f, rmOK) ==
    IF fsys[f].kind = "none" THEN [fs |-> fsys, panic |-> FALSE]
    ELSE IF fsys[f].kind # "file" THEN [fs |-> fsys, panic |-> TRUE]
    ELSE IF rmOK THEN [fs |-> [fsys EXCEPT ![f] = NoFile], panic |-> FALSE]
    ELSE [fs |-> fsys, panic |-> FALSE]

\* os.OpenFile(f, O_WRONLY|O_CREATE|O_TRUNC, mode): an existing file is
\* truncated and keeps its mode, a missing one is created with mode.
OpenTrunc(fsys, f, mode, ok) ==
    IF ~ok \/ fsys[f].kind = "dir" THEN [fs |-> fsys, err |-> TRUE]
    ELSE IF fsys[f].kind = "file"
    THEN [fs |-> [fsys EXCEPT ![f].data = << >>], err |-> FALSE]
    ELSE [fs |-> [fsys EXCEPT ![f] = RegFile(<< >>, mode)], err |-> FALSE]

\* fd.Write(b): n bytes reach the file; an error iff n < len(b)
WriteFd(fsys, f, b, n) ==
    [fs |-> [fsys EXCEPT ![f].data = SubSeq(b, 1, n)], err |-> n < Len(b)]

\* os.Rename(old, new): atomic; fails on a directory at new or when the
\* system refuses it, and then changes nothing.
Rename(fsys, old, new, ok) ==
    IF ~ok \/ fsys[new].kind = "dir" \/ fsys[old].kind = "none"
    THEN [fs |-> fsys, err |-> TRUE]
    ELSE [fs |-> [fsys EXCEPT ![new] = fsys[old], ![old] = NoFile],
          err |-> FALSE]

\* What writeFile returns after fd.Write: the write error, else nil after
\* the rename, whose own result is not looked at.
RetAfterWrite(werr) == IF werr THEN "write" ELSE "nil"

\* a writer that renames whatever reached the temporary file
RenamesAlways(werr) == TRUE

\* Whether writeFile goes on to rename after fd.Write
RenamesAfterWrite(werr) == ~werr

\* writeFile(fn, b, mode) run to its end under the environment env =
\* [rm, open, n, rename]: the resulting file system and the value returned
\* ("nil", or the step that failed, or "panic").
WriteFile(fsys, fn, b, mode, env) ==
    LET tmp == TmpName(fn)
        u   == Unlink(fsys, tmp, env.rm)
        o   == OpenTrunc(u.fs, tmp, mode, env.open)
        w   == WriteFd(o.fs, tmp, b, env.n)
        r   == Rename(w.fs, tmp, fn, env.rename)
    IN  IF u.panic THEN [fs |-> fsys, ret |-> "panic"]
        ELSE IF o.err THEN [fs |-> o.fs, ret |-> "create"]
        ELSE IF ~RenamesAfterWrite(w.err)
        THEN [fs |-> w.fs, ret |-> RetAfterWrite(w.err)]
        ELSE [fs |-> r.fs, ret |-> RetAfterWrite(w.err)]

\* ------------------------------------------------------------------------
\* State
\* ------------------------------------------------------------------------

VARIABLES
    fs,      \* path -> NoFile, Dir or a regular file
    wf,      \* the writeFile call in progress and where it stands
    kp,      \* the Keypair the caller holds
    sk,      \* the PrivateKey returned by ReadPrivateKey
    pk,      \* the PublicKey returned by ReadPublicKey
    sig,     \* the Signature the caller holds
    res,     \* what the last call returned
    wrote,   \* history: the key, password and record of the last serialize
    signed,  \* history: the public key and digest behind sig.Sig
    mr,      \* the MmapReader or fileCksum call in progress
    readers, \* goroutine -> the ReadPrivateKey call it is in, local values
    queue,   \* the Q: its slots q, the indices wr and rd, and mask
    qhist,   \* history: what the last queue call returned, what is held
    ring,    \* the Ring: its channel q, who holds which PacketBuf
    lg       \* the Logger: its channel, flags, goroutines and output

vars == << fs, wf, kp, sk, pk, sig, res, wrote, signed, mr, readers, queue,
           qhist, ring, lg >>

Paths == {"t.pub", "t.pub.tmp", "t.key", "t.key.tmp", "t.sig", "t.sig.tmp", "f"}

\* zero values of the Go types
NilPrivateKey == [nil |-> TRUE, Sk |-> << >>, pk |-> << >>]

NilPublicKey == [nil |-> TRUE, Pk |-> << >>]

\* Keypair{}: both keys present and empty
ZeroKeypair ==
    [Sec |-> [nil |-> FALSE, Sk |-> << >>, pk |-> << >>],
     Pub |-> [nil |-> FALSE, Pk |-> << >>]]

NilSignature == [Sig |-> << >>, Pkhash |-> << >>]

NoCall ==
    [pc |-> "idle", fn |-> "", b |-> << >>, mode |-> 0, prior |-> NoFile,
     stale |-> NoFile, ret |-> "none", fault |-> "none", closeErr |-> FALSE]

NoRes == [op |-> "none", err |-> "nil", ok |-> FALSE, pw |-> << >>,
          fn |-> "", key |-> "", ck |-> << >>, Pk |-> << >>, xored |-> FALSE,
          pubDone |-> FALSE, keyKept |-> FALSE]

NoWrote == [valid |-> FALSE, Sk |-> << >>, pw |-> << >>, out |-> << >>]

NoSigned ==
    [valid |-> FALSE, Pk |-> << >>, ck |-> << >>, fn |-> "", data |-> << >>,
     loaded |-> FALSE, hint |-> << >>]

\* no digest call in progress: the remaining range (off, sz), the range
\* asked for (off0, sz0), the windows mapped now, every window mapped so
\* far, and the bytes the writer received
NoMap ==
    [pc |-> "idle", fun |-> "", off |-> 0, sz |-> 0, off0 |-> 0, sz0 |-> 0,
     mapped |-> {}, wins |-> << >>, fed |-> << >>, err |-> "none",
     ck |-> << >>]

\* the goroutines that call ReadPrivateKey at the same time
Procs == {1, 2}

\* a goroutine outside ReadPrivateKey; inside, its local variables: the
\* file bytes yml, the decoded esk.Esk, esk.Salt, esk.Verify and cost
\* parameters, the expanded password pwb, the keystream xork, and the
\* key sk.Sk and error it returns
NoReader ==
    [pc |-> "idle", pw |-> << >>, yml |-> << >>, Esk |-> << >>,
     Salt |-> << >>, Verify |-> << >>, cost |-> [N |-> 0, R |-> 0, P |-> 0],
     pwb |-> << >>, xork |-> << >>, Sk |-> << >>, err |-> "none",
     mixed |-> FALSE]

\* no Ring yet (before NewRing): the channel q of buffers, each
\* goroutine's place in Get or Free and the buffer u it is freeing, the
\* buffers it holds and those it has given back, and whether any buffer
\* was freed a second time
NoRing ==
    [made |-> FALSE, Size |-> 0, q |-> << >>,
     g |-> [p \in Procs |-> [pc |-> "idle", u |-> 0]],
     held |-> [p \in Procs |-> {}], back |-> [p \in Procs |-> {}],
     misuse |-> FALSE]

\* a log line: its number, the priority it is logged at, the priority of
\* the logger it went through and the method that logged it
NoMsg == [id |-> 0, prio |-> 0, lprio |-> 0, via |-> "", l |-> ""]

\* a goroutine outside the logger: its place in the call, the method, the
\* logger ("top" or "sub"), the line s and the value z read from closed
NoGo == [pc |-> "idle", op |-> "", l |-> "", s |-> NoMsg, z |-> 0]

\* no Logger: prio of the top-level logger and of its sub-logger, lClose
\* (file), the outch (closed, logch, its mutex mu and whether logch is
\* open), the wait channel, the qrunner goroutine, the writer's output,
\* and the history of what entered logch
NoLog ==
    [prio |-> [l \in {"top", "sub"} |-> 0], file |-> FALSE,
     closed |-> 0, chOpen |-> TRUE, logch |-> << >>, mu |-> 0,
     waitClosed |-> FALSE, fileClosed |-> FALSE,
     run |-> [pc |-> "recv", s |-> NoMsg],
     g |-> [p \in Procs |-> NoGo],
     out |-> << >>, next |-> 1, accepted |-> << >>, atClose |-> << >>,
     panic |-> FALSE]

\* no Q yet (before NewQ)
NoQ == [q |-> << >>, wr |-> 0, rd |-> 0, mask |-> 0]

\* a goroutine outside the queue: its place in the call, the call and its
\* argument, the locals wr and rd, the item read
NoQGo == [pc |-> "idle", op |-> "", x |-> 0, wr |-> 0, rd |-> 0, item |-> 0]

\* a call that has returned, and what it returned (op "" : none)
NoQDone == [op |-> "", x |-> 0, ok |-> FALSE, item |-> 0]

\* what is remembered about the last call on the queue: the call and its
\* results, the items enqueued and not yet dequeued before (was) and after
\* it (held), the queue before it, the size asked of NewQ; and for calls
\* from several goroutines: where each one is (g), who holds the mutex
\* (l, 0: nobody), the queue when the first of the calls began (base) and
\* the calls that have returned since (done)
NoQHist == [op |-> "none", ok |-> FALSE, item |-> 0, held |-> << >>,
            was |-> << >>, before |-> NoQ, wrapped |-> FALSE, n |-> 0,
            panic |-> FALSE, net |-> 0,
            g |-> [p \in Procs |-> NoQGo], l |-> 0, base |-> NoQ,
            done |-> [p \in Procs |-> NoQDone]]

\* ------------------------------------------------------------------------
\* writeFile, one system call at a time
\* ------------------------------------------------------------------------

\* the path written in the step-by-step specification
WfTarget == "t.key"

\* bytes and contents the step-by-step specification draws from
WfBytes == {1, 2}

RECURSIVE SeqsUpTo(_, _)
SeqsUpTo(S, n) ==
    IF n = 0 THEN {<< >>}
    ELSE SeqsUpTo(S, n - 1)
           \cup {Append(q, x) : q \in {t \in SeqsUpTo(S, n - 1) : Len(t) = n - 1}, x \in S}

WfContents == SeqsUpTo(WfBytes, MaxFileLen)

WfModes == {ModeOwner, ModeWorld}

WfFiles == {NoFile, Dir} \cup {RegFile(c, m) : c \in WfContents, m \in WfModes}

WfActive == {"unlink", "open", "write", "close", "rename"}

WfOthers == << kp, sk, pk, sig, res, wrote, signed, mr, readers, queue, qhist, ring, lg >>

\* writeFile is entered: tmp := fn + ".tmp"
WfCall ==
    /\ wf.pc = "idle"
    /\ \E b \in WfContents, m \in WfModes :
         wf' = [pc |-> "unlink", fn |-> WfTarget, b |-> b, mode |-> m,
                prior |-> fs[WfTarget], stale |-> fs[TmpName(WfTarget)],
                ret |-> "none", fault |-> "none", closeErr |-> FALSE]
    /\ UNCHANGED << fs, WfOthers >>

\* unlink(tmp)
WfUnlink ==
    /\ wf.pc = "unlink"
    /\ \E rmOK \in BOOLEAN :
         LET u == Unlink(fs, TmpName(wf.fn), rmOK)
         IN  /\ fs' = u.fs
             /\ wf' = IF u.panic
                      THEN [wf EXCEPT !.pc = "panic", !.ret = "panic"]
                      ELSE [wf EXCEPT !.pc = "open"]
    /\ UNCHANGED WfOthers

\* fd, err := os.OpenFile(tmp, ...); if err != nil { return ... }
WfOpen ==
    /\ wf.pc = "open"
    /\ \E ok \in BOOLEAN :
         LET o == OpenTrunc(fs, TmpName(wf.fn), wf.mode, ok)
         IN  /\ fs' = o.fs
             /\ wf' = IF o.err
                      THEN [wf EXCEPT !.pc = "done", !.ret = "create",
                                       !.fault = "create"]
                      ELSE [wf EXCEPT !.pc = "write"]
    /\ UNCHANGED WfOthers

\* _, err = fd.Write(b)
WfWrite ==
    /\ wf.pc = "write"
    /\ \E n \in 0..Len(wf.b) :
         LET w == WriteFd(fs, TmpName(wf.fn), wf.b, n)
         IN  /\ fs' = w.fs
             /\ wf' = [wf EXCEPT !.pc = "close",
                                  !.fault = IF w.err THEN "write" ELSE "none"]
    /\ UNCHANGED WfOthers

\* fd.Close() on either path; it may report an error, which is dropped
\* ("we ignore close(2) errors").  After a failed write the call returns
\* the write error, otherwise it goes on to the rename.
WfClose ==
    /\ wf.pc = "close"
    /\ \E ok \in BOOLEAN :
         wf' = IF RenamesAfterWrite(wf.fault = "write")
               THEN [wf EXCEPT !.pc = "rename", !.closeErr = ~ok]
               ELSE [wf EXCEPT !.pc = "done", !.closeErr = ~ok,
                               !.ret = RetAfterWrite(wf.fault = "write")]
    /\ UNCHANGED << fs, WfOthers >>

\* os.Rename(tmp, fn); return nil
WfRename ==
    /\ wf.pc = "rename"
    /\ \E ok \in BOOLEAN :
         LET r == Rename(fs, TmpName(wf.fn), wf.fn, ok)
         IN  /\ fs' = r.fs
             /\ wf' = [wf EXCEPT !.pc = "done",
                                  !.ret = RetAfterWrite(wf.fault = "write"),
                                  !.fault = IF r.err THEN "rename" ELSE @]
    /\ UNCHANGED WfOthers

\* the process dies between two system calls
WfCrash ==
    /\ wf.pc \in WfActive
    /\ wf' = [wf EXCEPT !.pc = "crashed"]
    /\ UNCHANGED << fs, WfOthers >>

\* the caller (or a restarted process) is ready for the next call
WfReturn ==
    /\ wf.pc \in {"done", "crashed", "panic"}
    /\ wf' = NoCall
    /\ UNCHANGED << fs, WfOthers >>

InitOthers ==
    /\ kp = ZeroKeypair
    /\ sk = NilPrivateKey
    /\ pk = NilPublicKey
    /\ sig = NilSignature
    /\ res = NoRes
    /\ wrote = NoWrote
    /\ signed = NoSigned
    /\ mr = NoMap
    /\ readers = [p \in Procs |-> NoReader]
    /\ queue = NoQ
    /\ qhist = NoQHist
    /\ ring = NoRing
    /\ lg = NoLog

\* writeFile may find anything at the target and at its temporary sibling
InitWF ==
    /\ \E a \in WfFiles, t \in WfFiles :
         fs = [p \in Paths |->
                 IF p = WfTarget THEN a
                 ELSE IF p = TmpName(WfTarget) THEN t ELSE NoFile]
    /\ wf = NoCall
    /\ InitOthers

NextWF ==
    \/ WfCall
    \/ WfUnlink
    \/ WfOpen
    \/ WfWrite
    \/ WfClose
    \/ WfRename
    \/ WfCrash
    \/ WfReturn

SpecWF == InitWF /\ [][NextWF]_vars

\* ------------------------------------------------------------------------
\* The YAML records: a document is the sequence of its << key, value >>
\* lines in struct order; a field tagged omitempty is left out when empty.
\* ------------------------------------------------------------------------

HasKey(doc, k) == \E i \in 1..Len(doc) : doc[i][1] = k

\* a line that is not YAML; yaml.Unmarshal fails on a document with one
Unparsable == << "?", << >> >>

BadYaml(doc) == HasKey(doc, Unparsable[1])

Lookup(doc, k, zero) ==
    IF HasKey(doc, k)
    THEN doc[CHOOSE i \in 1..Len(doc) : doc[i][1] = k][2]
    ELSE zero

OmitEmpty(k, v, zero) == IF v = zero THEN << >> ELSE << << k, v >> >>

\* yaml.Marshal(ssk) for serializedPrivKey
MarshalPrivKey(ssk) ==
    OmitEmpty("comment", ssk.Comment, "")
      \o << << "esk", ssk.Esk >> >>
      \o OmitEmpty("salt", ssk.Salt, << >>)
      \o OmitEmpty("algo", ssk.Algo, "")
      \o OmitEmpty("verify", ssk.Verify, << >>)
      \o (IF ssk.N = 0 THEN << >> ELSE << << "Z", Itoa(ssk.N) >> >>)
      \o (IF ssk.R = 0 THEN << >> ELSE << << "r", Itoa(ssk.R) >> >>)
      \o (IF ssk.P = 0 THEN << >> ELSE << << "p", Itoa(ssk.P) >> >>)

\* a uint32 field: absent is 0, anything but digits is a YAML error
UintField(doc, k) ==
    IF ~HasKey(doc, k) THEN [err |-> FALSE, v |-> 0]
    ELSE IF IsDigits(Lookup(doc, k, << >>))
    THEN [err |-> FALSE, v |-> Atoi(Lookup(doc, k, << >>))]
    ELSE [err |-> TRUE, v |-> 0]

\* yaml.Unmarshal(yml, &ssk) for serializedPrivKey; unknown keys are skipped
UnmarshalPrivKey(doc) ==
    LET n == UintField(doc, "Z")
        r == UintField(doc, "r")
        p == UintField(doc, "p")
    IN  [err |-> BadYaml(doc) \/ n.err \/ r.err \/ p.err,
         v   |-> [Comment |-> Lookup(doc, "comment", ""),
                  Esk     |-> Lookup(doc, "esk", << >>),
                  Salt    |-> Lookup(doc, "salt", << >>),
                  Algo    |-> Lookup(doc, "algo", ""),
                  Verify  |-> Lookup(doc, "verify", << >>),
                  N       |-> n.v,
                  R       |-> r.v,
                  P       |-> p.v]]

\* yaml.Marshal(spk) for serializedPubKey
MarshalPubKey(spk) ==
    OmitEmpty("comment", spk.Comment, "") \o << << "pk", spk.Pk >> >>

\* yaml.Unmarshal(yml, &spk) for serializedPubKey
UnmarshalPubKey(doc) ==
    [err |-> BadYaml(doc),
     v   |-> [Comment |-> Lookup(doc, "comment", ""),
              Pk      |-> Lookup(doc, "pk", << >>)]]

\* yaml.Marshal(ss) for signature
MarshalSignature(ss) ==
    OmitEmpty("comment", ss.Comment, "")
      \o OmitEmpty("pkhash", ss.Pkhash, << >>)
      \o << << "signature", ss.Signature >> >>

\* yaml.Unmarshal(b, &ss) for signature
UnmarshalSignature(doc) ==
    [err |-> BadYaml(doc),
     v   |-> [Comment   |-> Lookup(doc, "comment", ""),
              Pkhash    |-> Lookup(doc, "pkhash", << >>),
              Signature |-> Lookup(doc, "signature", << >>)]]

\* ------------------------------------------------------------------------
\* Private and public key files
\* ------------------------------------------------------------------------

\* const sk_algo
sk_algo == "scrypt-sha256"

\* const _N = 1 << 17, _r = 16, _p = 1
ScryptN == 131072

ScryptR == 16

ScryptP == 1

\* What the system does to one writeFile call: whether os.Remove, OpenFile
\* and Rename work, and how many bytes fd.Write falls short.
EnvOK == [rm |-> TRUE, open |-> TRUE, short |-> 0, rename |-> TRUE]

Envs ==
    {EnvOK,
     [EnvOK EXCEPT !.rm = FALSE],
     [EnvOK EXCEPT !.open = FALSE],
     [EnvOK EXCEPT !.short = 1],
     [EnvOK EXCEPT !.rename = FALSE]}

EnvFor(env, b) ==
    [rm |-> env.rm, open |-> env.open, n |-> Max2(0, Len(b) - env.short),
     rename |-> env.rename]

\* The body of PrivateKey.serialize up to yaml.Marshal, for the cost
\* parameters esk.N, esk.r, esk.p = cost: they drive scrypt.Key and are
\* copied into the record.
EncryptRecordWith(Sk, comment, pw, salt, cost) ==
    LET pwb  == Sum512(pw)
        kdf  == ScryptKey(pwb, salt, cost.N, cost.R, cost.P, Len(Sk))
        xork == kdf.out
        ver  == Sum256(salt \o xork)
        esk  == XorBytes(Sk, xork)
    IN  [err |-> kdf.err,
         out |-> MarshalPrivKey(
                   [Comment |-> comment,
                    Esk     |-> EncodeToString(esk),
                    Salt    |-> EncodeToString(salt),
                    Algo    |-> sk_algo,
                    Verify  |-> EncodeToString(ver),
                    N       |-> cost.N,
                    R       |-> cost.R,
                    P       |-> cost.P])]

\* esk.N = _N; esk.r = _r; esk.p = _p
DefaultCost == [N |-> ScryptN, R |-> ScryptR, P |-> ScryptP]

\* PrivateKey.serialize up to yaml.Marshal: the record for key bytes Sk
\* under password pw with the salt that rand.Read delivered.
EncryptRecord(Sk, comment, pw, salt) ==
    EncryptRecordWith(Sk, comment, pw, salt, DefaultCost)

\* PrivateKey.serialize(fn, comment, pw): rand.Read may fail (randOK),
\* the record goes through writeFile with mode 0600.
PrivSerialize(fsys, Sk, fn, comment, pw, salt, randOK, env) ==
    LET rec == EncryptRecord(Sk, comment, pw, salt)
        w   == WriteFile(fsys, fn, rec.out, ModeOwner, EnvFor(env, rec.out))
    IN  IF ~randOK THEN [fs |-> fsys, ret |-> "rand", out |-> << >>]
        ELSE IF rec.err THEN [fs |-> fsys, ret |-> "kdf", out |-> << >>]
        ELSE [fs |-> w.fs, ret |-> w.ret, out |-> rec.out]

\* PublicKey.serialize(fn, comment): mode 0644
PubSerialize(fsys, Pk, fn, comment, env) ==
    LET out == MarshalPubKey([Comment |-> comment, Pk |-> EncodeToString(Pk)])
    IN  WriteFile(fsys, fn, out, ModeWorld, EnvFor(env, out))

\* a decryption that adds the keystream instead of XORing it
DecryptedKeyAdd(esk, xork) ==
    [nil |-> FALSE, Sk |-> [i \in 1..Len(esk) |-> (esk[i] + xork[i]) % 256],
     pk |-> << >>]

\* The key ReadPrivateKey builds after the password check:
\* sk.Sk[i] = esk.Esk[i] ^ xork[i]; nothing else of sk is set.
DecryptedKey(esk, xork) == [nil |-> FALSE, Sk |-> XorBytes(esk, xork), pk |-> << >>]

\* a reader that derives the keystream with the compile-time parameters
CostOfDefaults(ssk) == DefaultCost

\* esk := &encPrivKey{N: ssk.N, r: ssk.R, p: ssk.P, ...}
CostOf(ssk) == [N |-> ssk.N, R |-> ssk.R, P |-> ssk.P]

\* ReadPrivateKey(fn, pw): the error ("nil" for none, else the step that
\* failed), the key returned, and whether the XOR loop ran.
ReadPrivateKey(fsys, fn, pw) ==
    LET fail(e) == [err |-> e, sk |-> NilPrivateKey, xored |-> FALSE]
        u       == UnmarshalPrivKey(fsys[fn].data)
        ssk     == u.v
        esk     == DecodeString(ssk.Esk)
        salt    == DecodeString(ssk.Salt)
        ver     == DecodeString(ssk.Verify)
        pwb     == Sum512(pw)
        cost    == CostOf(ssk)
        kdf     == ScryptKey(pwb, salt.out, cost.N, cost.R, cost.P,
                             Len(esk.out))
        ck      == Sum256(salt.out \o kdf.out)
    IN  IF fsys[fn].kind # "file" THEN fail("io")
        ELSE IF u.err THEN fail("yaml")
        ELSE IF esk.err \/ salt.err \/ ver.err THEN fail("base64")
        ELSE IF kdf.err THEN fail("kdf")
        ELSE IF ~ConstantTimeEq(ver.out, ck) THEN fail("auth")
        ELSE [err |-> "nil", sk |-> DecryptedKey(esk.out, kdf.out),
              xored |-> TRUE]

\* a reader that hands back the text of the pk field as it stands
ReadPublicKeyRaw(fsys, fn) ==
    LET fail(e) == [err |-> e, pk |-> NilPublicKey]
        u       == UnmarshalPubKey(fsys[fn].data)
    IN  IF fsys[fn].kind # "file" THEN fail("io")
        ELSE IF u.err THEN fail("yaml")
        ELSE IF Len(u.v.Pk) = 0 THEN fail("empty")
        ELSE [err |-> "nil", pk |-> [nil |-> FALSE, Pk |-> u.v.Pk]]

\* ReadPublicKey(fn)
ReadPublicKey(fsys, fn) ==
    LET fail(e) == [err |-> e, pk |-> NilPublicKey]
        u       == UnmarshalPubKey(fsys[fn].data)
        d       == DecodeString(u.v.Pk)
    IN  IF fsys[fn].kind # "file" THEN fail("io")
        ELSE IF u.err THEN fail("yaml")
        ELSE IF d.err THEN fail("base64")
        ELSE IF Len(d.out) = 0 THEN fail("empty")
        ELSE [err |-> "nil", pk |-> [nil |-> FALSE, Pk |-> d.out]]

\* ------------------------------------------------------------------------
\* Signing and verifying
\* ------------------------------------------------------------------------

\* const chunk: the mmap window of fileCksum (1 GiB in the code), scaled
chunk == 1

\* Longest data file that is signed: one byte more than a window.
MaxDataLen == chunk + 1

RECURSIVE Windows(_, _)
\* the loop of fileCksum: the << off, n >> of each syscall.Mmap
Windows(off, sz) ==
    IF sz <= 0 THEN << >>
    ELSE LET n == IF sz > chunk THEN chunk ELSE sz
         IN  << << off, n >> >> \o Windows(off + n, sz - n)

RECURSIVE Fed(_, _)
\* the bytes h.Write received, window after window
Fed(data, ws) ==
    IF Len(ws) = 0 THEN << >>
    ELSE SubSeq(data, ws[1][1] + 1, ws[1][1] + ws[1][2]) \o Fed(data, Tail(ws))

\* a checksum that stops after the first window
fileCksumFirstWindow(fsys, fn) ==
    IF fsys[fn].kind # "file" THEN [err |-> "io", ck |-> << >>]
    ELSE [err |-> "nil",
          ck  |-> Sum512(SubSeq(fsys[fn].data, 1, Min2(chunk, Len(fsys[fn].data))))]

\* fileCksum(fn, sha512.New())
fileCksum(fsys, fn) ==
    IF fsys[fn].kind # "file" THEN [err |-> "io", ck |-> << >>]
    ELSE [err |-> "nil",
          ck  |-> Sum512(Fed(fsys[fn].data, Windows(0, Len(fsys[fn].data))))]

\* The key-hint SignMessage stores: pkh := sha256.Sum256(sk.pk); pkh[:16]
SignerHint(key) == SubSeq(Sum256(key.pk), 1, HintSize)

\* PrivateKey.SignMessage(ck, comment); Ed's Sign panics on a key of the
\* wrong length
SignMessage(key, ck) ==
    IF key.nil \/ Len(key.Sk) # PrivateKeySize
    THEN [err |-> "panic", sig |-> NilSignature]
    ELSE [err |-> "nil",
          sig |-> [Sig |-> EdSign(key.Sk, ck), Pkhash |-> SignerHint(key)]]

\* PrivateKey.SignFile(fn)
SignFile(key, fsys, fn) ==
    LET c == fileCksum(fsys, fn)
    IN  IF c.err # "nil" THEN [err |-> c.err, sig |-> NilSignature]
        ELSE SignMessage(key, c.ck)

\* Signature.IsPKMatch(pk)
IsPKMatch(s, pub) ==
    ConstantTimeEq(SubSeq(Sum256(pub.Pk), 1, HintSize), s.Pkhash)

\* a verifier that hands Ed.Verify the key-hint instead of the signature
VerifyResultWrongField(pub, ck, s) == EdVerify(pub.Pk, ck, s.Pkhash)

\* a verifier that accepts a signature of the key over any digest
VerifyResultAnyDigest(pub, ck, s) == Len(s.Sig) = SignatureSize

\* a verifier that also insists on the key-hint
VerifyResultHint(pub, ck, s) ==
    IsPKMatch(s, pub) /\ EdVerify(pub.Pk, ck, s.Sig)

\* What VerifyMessage answers for a key of the right length
VerifyResult(pub, ck, s) == EdVerify(pub.Pk, ck, s.Sig)

\* PublicKey.VerifyMessage(ck, sig); Ed.Verify panics on a key of the
\* wrong length
VerifyMessage(pub, ck, s) ==
    IF pub.nil \/ Len(pub.Pk) # PublicKeySize
    THEN [err |-> "panic", ok |-> FALSE]
    ELSE [err |-> "nil", ok |-> VerifyResult(pub, ck, s)]

\* a verifier that digests the file with the other hash
VerifyFileOtherHash(pub, fsys, fn, s) ==
    IF fsys[fn].kind # "file" THEN [err |-> "io", ok |-> FALSE]
    ELSE VerifyMessage(pub, Sum256(fsys[fn].data), s)

\* PublicKey.VerifyFile(fn, sig)
VerifyFile(pub, fsys, fn, s) ==
    LET c == fileCksum(fsys, fn)
    IN  IF c.err # "nil" THEN [err |-> c.err, ok |-> FALSE]
        ELSE VerifyMessage(pub, c.ck, s)

\* ------------------------------------------------------------------------
\* Calls of the package, each one atomic
\* ------------------------------------------------------------------------

\* inputs the calls draw from
SeedBytes == {3, 77}

SaltBytes == {17, 200}

Seeds == {q \in SeqsUpTo(SeedBytes, SeedSize) : Len(q) = SeedSize}

Salts == {q \in SeqsUpTo(SaltBytes, SaltSize) : Len(q) = SaltSize}

\* "", "abc", "xyz"
Passwords == {<< >>, << 97, 98, 99 >>, << 120, 121, 122 >>}

Comments == {"", "c"}

\* key bytes a caller can put into the exported field Sk
RawKeys == {<< >>, << 200, 7, 64 >>}

Res(op, err) == [NoRes EXCEPT !.op = op, !.err = err]

\* NewKeypair(): Ed.GenerateKey, pk cached in the private key
NewKeypair(seed) ==
    LET g == GenerateKey(seed)
    IN  [Sec |-> [nil |-> FALSE, Sk |-> g.priv, pk |-> g.pub],
         Pub |-> [nil |-> FALSE, Pk |-> g.pub]]

CallNewKeypair(SeedSet) ==
    /\ \E seed \in SeedSet, randOK \in BOOLEAN :
         IF randOK
         THEN kp' = NewKeypair(seed) /\ res' = Res("NewKeypair", "nil")
         ELSE kp' = kp /\ res' = Res("NewKeypair", "rand")
    /\ UNCHANGED << fs, wf, sk, pk, sig, wrote, signed, mr, readers,
                    queue, qhist, ring, lg >>

\* a Keypair built as a literal around raw key bytes
CallKeypairLiteral ==
    /\ \E raw \in RawKeys :
         kp' = [ZeroKeypair EXCEPT !.Sec.Sk = raw]
    /\ res' = Res("Keypair", "nil")
    /\ UNCHANGED << fs, wf, sk, pk, sig, wrote, signed, mr, readers,
                    queue, qhist, ring, lg >>

\* bn.pub is a regular file that holds the whole public-key record of k
PubComplete(fsys, k, comment) ==
    /\ fsys["t.pub"].kind = "file"
    /\ fsys["t.pub"].data =
          MarshalPubKey([Comment |-> comment, Pk |-> EncodeToString(k.Pub.Pk)])

\* Keypair.Serialize(bn, comment, pw): bn.pub first, then bn.key; with
\* the call's result go two observations, whether bn.pub was complete when
\* pk.serialize returned and whether bn.key is as it was before the call;
\* p and s are what pk.serialize and sk.serialize returned
SerializeResult(fsys, k, comment, p, s, e2) ==
    IF p.ret # "nil"
    THEN [fs |-> p.fs, ret |-> p.ret, out |-> << >>, keyDone |-> FALSE,
          pubDone |-> PubComplete(p.fs, k, comment),
          keyKept |-> p.fs["t.key"] = fsys["t.key"]]
    ELSE [fs |-> s.fs, ret |-> s.ret, out |-> s.out,
          keyDone |-> s.ret = "nil" /\ e2.rename,
          pubDone |-> PubComplete(p.fs, k, comment),
          keyKept |-> s.fs["t.key"] = fsys["t.key"]]

KeypairSerialize(fsys, k, comment, pw, salt, randOK, e1, e2) ==
    LET p == PubSerialize(fsys, k.Pub.Pk, "t.pub", comment, e1)
    IN  SerializeResult(fsys, k, comment, p,
                        PrivSerialize(p.fs, k.Sec.Sk, "t.key", comment, pw,
                                      salt, randOK, e2), e2)

CallSerialize(PwSet, CommentSet, SaltSet, RandSet, EnvSet) ==
    /\ \E comment \in CommentSet, pw \in PwSet, salt \in SaltSet,
          randOK \in RandSet, e1 \in EnvSet, e2 \in EnvSet :
         LET r == KeypairSerialize(fs, kp, comment, pw, salt, randOK, e1, e2)
         IN  /\ fs' = r.fs
             /\ res' = [Res("Serialize", r.ret) EXCEPT
                          !.pw = pw, !.pubDone = r.pubDone,
                          !.keyKept = r.keyKept]
             /\ wrote' = IF r.keyDone
                         THEN [valid |-> TRUE, Sk |-> kp.Sec.Sk, pw |-> pw,
                               out |-> r.out]
                         ELSE wrote
    /\ UNCHANGED << wf, kp, sk, pk, sig, signed, mr, readers,
                    queue, qhist, ring, lg >>

CallReadPrivateKey(PwSet) ==
    /\ \E fn \in {"t.key", "t.pub"}, pw \in PwSet :
         LET r == ReadPrivateKey(fs, fn, pw)
         IN  /\ sk' = r.sk
             /\ res' = [Res("ReadPrivateKey", r.err) EXCEPT
                          !.pw = pw, !.fn = fn, !.xored = r.xored]
    /\ UNCHANGED << fs, wf, kp, pk, sig, wrote, signed, mr, readers,
                    queue, qhist, ring, lg >>

CallReadPublicKey ==
    /\ \E fn \in {"t.key", "t.pub"} :
         LET r == ReadPublicKey(fs, fn)
         IN  /\ pk' = r.pk
             /\ res' = [Res("ReadPublicKey", r.err) EXCEPT !.fn = fn]
    /\ UNCHANGED << fs, wf, kp, sk, sig, wrote, signed, mr, readers,
                    queue, qhist, ring, lg >>

InitAPI ==
    /\ fs = [p \in Paths |-> NoFile]
    /\ wf = NoCall
    /\ InitOthers

\* the key-file specification: one generated key and the raw ones, every
\* password, both salts; the system either works or refuses to create a file
OneSeed == {CHOOSE q \in Seeds : TRUE}

KeyEnvs == {EnvOK, [EnvOK EXCEPT !.open = FALSE]}

NextKey ==
    \/ CallNewKeypair(OneSeed)
    \/ CallKeypairLiteral
    \/ CallSerialize(Passwords, {""}, Salts, BOOLEAN, KeyEnvs)
    \/ CallReadPrivateKey(Passwords)

SpecKey == InitAPI /\ [][NextKey]_vars

\* ------------------------------------------------------------------------
\* Signing a digest
\* ------------------------------------------------------------------------

\* the digests that are signed, and a prefix of one (ck[:16] in Test1)
Messages == {Sum512(<< 1 >>), Sum512(<< 2 >>)}

CheckedMessages == Messages \cup {SubSeq(Sum512(<< 1 >>), 1, Size512 \div 4)}

\* the private key a call signs with: the keypair's or the one read
SignKey(which) == IF which = "kp" THEN kp.Sec ELSE sk

\* the public key a call verifies with: the keypair's or the one read
VerifyKey(which) == IF which = "kp" THEN kp.Pub ELSE pk

\* history of a signature: the public half of the signing key, what was
\* signed, whether the key had been read from disk, the hint it carried
SignedBy(which, key, ck, s) ==
    [NoSigned EXCEPT
       !.valid = TRUE,
       !.Pk = SubSeq(key.Sk, SeedSize + 1, PrivateKeySize),
       !.ck = ck,
       !.loaded = (which = "sk"),
       !.hint = s.Pkhash]

CallSignMessage(KeySet) ==
    /\ \E which \in KeySet, ck \in Messages :
         LET key == SignKey(which)
             r   == SignMessage(key, ck)
         IN  /\ res' = [Res("SignMessage", r.err) EXCEPT !.ck = ck, !.key = which]
             /\ sig' = IF r.err = "nil" THEN r.sig ELSE sig
             /\ signed' = IF r.err = "nil"
                          THEN SignedBy(which, key, ck, r.sig)
                          ELSE signed
    /\ UNCHANGED << fs, wf, kp, sk, pk, wrote, mr, readers,
                    queue, qhist, ring, lg >>

CallVerifyMessage(KeySet) ==
    /\ \E which \in KeySet, ck \in CheckedMessages :
         LET pub == VerifyKey(which)
             r   == VerifyMessage(pub, ck, sig)
         IN  res' = [Res("VerifyMessage", r.err) EXCEPT
                       !.ok = r.ok, !.ck = ck, !.Pk = pub.Pk, !.key = which]
    /\ UNCHANGED << fs, wf, kp, sk, pk, sig, wrote, signed, mr, readers,
                    queue, qhist, ring, lg >>

CallIsPKMatch(KeySet) ==
    /\ \E which \in KeySet :
         LET pub == VerifyKey(which)
         IN  res' = IF pub.nil THEN Res("IsPKMatch", "panic")
                    ELSE [Res("IsPKMatch", "nil") EXCEPT
                            !.ok = IsPKMatch(sig, pub), !.Pk = pub.Pk,
                            !.key = which]
    /\ UNCHANGED << fs, wf, kp, sk, pk, sig, wrote, signed, mr, readers,
                    queue, qhist, ring, lg >>

\* key-hints a caller may overwrite sig.Pkhash with (rand.Read(ss.Pkhash)
\* in Test1): the hint of any generated key, of no key, or other bytes
Hints ==
    {SubSeq(Sum256(DerivePublic(q)), 1, HintSize) : q \in Seeds}
      \cup {SubSeq(Sum256(<< >>), 1, HintSize), [i \in 1..HintSize |-> 0]}

CorruptPkhash ==
    /\ sig.Sig # << >>
    /\ \E h \in Hints :
         /\ h # sig.Pkhash
         /\ sig' = [sig EXCEPT !.Pkhash = h]
    /\ res' = Res("Corrupt", "nil")
    /\ UNCHANGED << fs, wf, kp, sk, pk, wrote, signed, mr, readers,
                    queue, qhist, ring, lg >>

OneSalt == {CHOOSE q \in Salts : TRUE}

NextSign ==
    \/ CallNewKeypair(Seeds)
    \/ CallSerialize({<< >>}, {""}, OneSalt, {TRUE}, {EnvOK})
    \/ CallReadPrivateKey({<< >>})
    \/ CallSignMessage({"kp", "sk"})
    \/ CallVerifyMessage({"kp"})
    \/ CallIsPKMatch({"kp"})
    \/ CorruptPkhash

SpecSign == InitAPI /\ [][NextSign]_vars

\* ------------------------------------------------------------------------
\* Signing a file
\* ------------------------------------------------------------------------

DataBytes == {1, 2}

DataContents == SeqsUpTo(DataBytes, MaxDataLen)

\* the test (or anyone) writes the data file
WriteDataFile ==
    /\ \E d \in DataContents : fs' = [fs EXCEPT !["f"] = RegFile(d, ModeOwner)]
    /\ res' = Res("WriteData", "nil")
    /\ UNCHANGED << wf, kp, sk, pk, sig, wrote, signed, mr, readers,
                    queue, qhist, ring, lg >>

\* one byte of the data file is changed
FlipByte ==
    /\ fs["f"].kind = "file"
    /\ \E i \in 1..Len(fs["f"].data), b \in DataBytes :
         /\ b # fs["f"].data[i]
         /\ fs' = [fs EXCEPT !["f"].data[i] = b]
    /\ res' = Res("Flip", "nil")
    /\ UNCHANGED << wf, kp, sk, pk, sig, wrote, signed, mr, readers,
                    queue, qhist, ring, lg >>

\* os.Truncate(zf, n-1)
TruncateByOne ==
    /\ fs["f"].kind = "file"
    /\ Len(fs["f"].data) > 0
    /\ fs' = [fs EXCEPT !["f"].data = SubSeq(@, 1, Len(@) - 1)]
    /\ res' = Res("Truncate", "nil")
    /\ UNCHANGED << wf, kp, sk, pk, sig, wrote, signed, mr, readers,
                    queue, qhist, ring, lg >>

CallSignFile(KeySet) ==
    /\ \E which \in KeySet :
         LET key == SignKey(which)
             r   == SignFile(key, fs, "f")
         IN  /\ res' = [Res("SignFile", r.err) EXCEPT !.key = which, !.fn = "f"]
             /\ sig' = IF r.err = "nil" THEN r.sig ELSE sig
             /\ signed' = IF r.err = "nil"
                          THEN [SignedBy(which, key, fileCksum(fs, "f").ck, r.sig)
                                  EXCEPT !.fn = "f", !.data = fs["f"].data]
                          ELSE signed
    /\ UNCHANGED << fs, wf, kp, sk, pk, wrote, mr, readers,
                    queue, qhist, ring, lg >>

CallVerifyFile(KeySet) ==
    /\ \E which \in KeySet :
         LET pub == VerifyKey(which)
             r   == VerifyFile(pub, fs, "f", sig)
         IN  res' = [Res("VerifyFile", r.err) EXCEPT
                       !.ok = r.ok, !.Pk = pub.Pk, !.key = which, !.fn = "f"]
    /\ UNCHANGED << fs, wf, kp, sk, pk, sig, wrote, signed, mr, readers,
                    queue, qhist, ring, lg >>

NextFile ==
    \/ CallNewKeypair(OneSeed)
    \/ CallSerialize({<< >>}, {""}, OneSalt, {TRUE}, {EnvOK})
    \/ CallReadPrivateKey({<< >>})
    \/ CallReadPublicKey
    \/ WriteDataFile
    \/ FlipByte
    \/ TruncateByOne
    \/ CallSignFile({"kp", "sk"})
    \/ CallVerifyFile({"kp", "pk"})

SpecFile == InitAPI /\ [][NextFile]_vars

\* ------------------------------------------------------------------------
\* MmapReader (util/mmap.go) and the loop of fileCksum, one system call
\* at a time.  Both run the same loop; fileCksum opens the file itself,
\* always starts at offset 0 with the size fstat reports, and has no
\* range check.
\* ------------------------------------------------------------------------

\* Longest file that is digested window by window: two windows and a byte.
MaxMapLen == 2 * chunk + 1

LongContents == SeqsUpTo(DataBytes, MaxMapLen)

\* offsets and lengths handed to MmapReader
MrOffs == 0..MaxMapLen

MrLens == 0..(MaxMapLen + 1)

MrOthers == << wf, kp, sk, pk, sig, res, wrote, signed, readers, queue, qhist, ring, lg >>

\* if sz > chunk { n = int(chunk) } else { n = int(sz) }
WindowLen(sz) == IF sz > chunk THEN chunk ELSE sz

\* a loop that maps the same offset again
NextOffStay(off, n) == off

\* off += int64(n)
NextOff(off, n) == off + n

\* a loop that forgets to unmap
AfterMunmapLeak(mapped, w) == mapped

\* syscall.Munmap(mem)
AfterMunmap(mapped, w) == mapped \ {w}

\* if off >= sz { return fmt.Errorf("can't mmap outside file size ...") }
\* sz is the length asked for, or the file size when that was 0
RangeError(off, sz, size) == off >= sz

\* if sz == 0 { ...; sz = st.Size() }
ZeroLenSize(off, size) == size

Zeros(k) == [i \in 1..k |-> 0]

\* the bytes of data in [off, off+n), as far as the file has them
InFile(data, off, n) == SubSeq(data, off + 1, Min2(off + n, Len(data)))

\* the test writes a file of up to two windows and a byte
WriteLongFile ==
    /\ mr.pc = "idle"
    /\ \E d \in LongContents : fs' = [fs EXCEPT !["f"] = RegFile(d, ModeOwner)]
    /\ UNCHANGED << MrOthers, mr, readers,
                    queue, qhist, ring, lg >>

\* util.MmapReader(fd, off, sz, wr) on the open file
CallMmapReader ==
    /\ mr.pc = "idle"
    /\ fs["f"].kind = "file"
    /\ \E off \in MrOffs, sz \in MrLens :
         mr' = [NoMap EXCEPT !.pc = IF sz = 0 THEN "stat" ELSE "check",
                             !.fun = "MmapReader",
                             !.off = off, !.sz = sz, !.off0 = off, !.sz0 = sz]
    /\ UNCHANGED << fs, MrOthers >>

\* fileCksum(fn, h): fd, err := os.Open(fn)
CallFileCksum ==
    /\ mr.pc = "idle"
    /\ mr' = IF fs["f"].kind = "file"
             THEN [NoMap EXCEPT !.pc = "stat", !.fun = "fileCksum"]
             ELSE [NoMap EXCEPT !.pc = "done", !.fun = "fileCksum",
                                !.err = "open"]
    /\ UNCHANGED << fs, MrOthers >>

\* st, err := fd.Stat(); sz = st.Size()
MrStat ==
    /\ mr.pc = "stat"
    /\ \E ok \in BOOLEAN :
         mr' = IF ~ok THEN [mr EXCEPT !.pc = "done", !.err = "stat"]
               ELSE IF mr.fun = "MmapReader"
               THEN [mr EXCEPT !.pc = "check",
                               !.sz = ZeroLenSize(mr.off, Len(fs["f"].data))]
               ELSE [mr EXCEPT !.pc = "loop", !.sz = Len(fs["f"].data)]
    /\ UNCHANGED << fs, MrOthers >>

\* if off >= sz { return error }
MrCheck ==
    /\ mr.pc = "check"
    /\ mr' = IF RangeError(mr.off, mr.sz, Len(fs["f"].data))
             THEN [mr EXCEPT !.pc = "done", !.err = "range"]
             ELSE [mr EXCEPT !.pc = "loop"]
    /\ UNCHANGED << fs, MrOthers >>

\* for sz > 0 { ...; mem, err := syscall.Mmap(fd, off, n, ...) }: the
\* system may refuse (ENOMEM, or EINVAL for an offset off a page boundary)
MrMmap ==
    /\ mr.pc = "loop"
    /\ mr.sz > 0
    /\ \E ok \in BOOLEAN :
         LET w == << mr.off, WindowLen(mr.sz) >>
         IN  mr' = IF ok
                   THEN [mr EXCEPT !.pc = "write",
                                   !.mapped = @ \cup {w},
                                   !.wins = Append(@, w)]
                   ELSE [mr EXCEPT !.pc = "done", !.err = "mmap"]
    /\ UNCHANGED << fs, MrOthers >>

\* wr.Write(mem): the window's bytes reach the writer.  A window that
\* reaches past the end of the file reads zeros up to the end of the last
\* page and faults (SIGBUS) beyond it.
MrWrite ==
    /\ mr.pc = "write"
    /\ LET w    == mr.wins[Len(mr.wins)]
           data == fs["f"].data
           have == InFile(data, w[1], w[2])
       IN  IF w[1] + w[2] <= Len(data)
           THEN mr' = [mr EXCEPT !.pc = "munmap", !.fed = @ \o have]
           ELSE \/ mr' = [mr EXCEPT !.pc = "fault", !.err = "sigbus"]
                \/ mr' = [mr EXCEPT !.pc = "munmap",
                                    !.fed = @ \o have \o Zeros(w[2] - Len(have))]
    /\ UNCHANGED << fs, MrOthers >>

\* syscall.Munmap(mem); sz -= int64(n); off += int64(n)
MrMunmap ==
    /\ mr.pc = "munmap"
    /\ LET w == mr.wins[Len(mr.wins)]
       IN  mr' = [mr EXCEPT !.pc = "loop",
                            !.mapped = AfterMunmap(@, w),
                            !.sz = @ - w[2],
                            !.off = NextOff(@, w[2])]
    /\ UNCHANGED << fs, MrOthers >>

\* the loop ends: MmapReader returns nil, fileCksum returns h.Sum(nil)
MrLoopEnd ==
    /\ mr.pc = "loop"
    /\ mr.sz <= 0
    /\ mr' = [mr EXCEPT !.pc = "done", !.err = "nil",
                        !.ck = IF mr.fun = "fileCksum" THEN Sum512(mr.fed)
                               ELSE << >>]
    /\ UNCHANGED << fs, MrOthers >>

\* the caller goes on (after a fault: the process is gone, a new one runs)
MrReturn ==
    /\ mr.pc \in {"done", "fault"}
    /\ mr' = NoMap
    /\ UNCHANGED << fs, MrOthers >>

NextMmap ==
    \/ WriteLongFile
    \/ CallMmapReader
    \/ CallFileCksum
    \/ MrStat
    \/ MrCheck
    \/ MrMmap
    \/ MrWrite
    \/ MrMunmap
    \/ MrLoopEnd
    \/ MrReturn

SpecMmap == InitAPI /\ [][NextMmap]_vars

\* ------------------------------------------------------------------------
\* Records on disk: what the readers make of well-formed and of damaged
\* key and signature files
\* ------------------------------------------------------------------------

\* Signature.Serialize(comment)
SigSerialize(s, comment) ==
    MarshalSignature([Comment   |-> comment,
                      Pkhash    |-> EncodeToString(s.Pkhash),
                      Signature |-> EncodeToString(s.Sig)])

\* a parser that puts the two decoded fields into each other's place
MakeSignatureSwapped(b) ==
    LET fail(e) == [err |-> e, sig |-> NilSignature]
        u       == UnmarshalSignature(b)
        s       == DecodeString(u.v.Signature)
        p       == DecodeString(u.v.Pkhash)
    IN  IF u.err THEN fail("yaml")
        ELSE IF s.err THEN fail("base64")
        ELSE IF p.err THEN fail("base64")
        ELSE [err |-> "nil", sig |-> [Sig |-> p.out, Pkhash |-> s.out]]

\* MakeSignature(b): the error ("nil" for none) and the Signature
MakeSignature(b) ==
    LET fail(e) == [err |-> e, sig |-> NilSignature]
        u       == UnmarshalSignature(b)
        s       == DecodeString(u.v.Signature)
        p       == DecodeString(u.v.Pkhash)
    IN  IF u.err THEN fail("yaml")
        ELSE IF s.err THEN fail("base64")
        ELSE IF p.err THEN fail("base64")
        ELSE [err |-> "nil", sig |-> [Sig |-> s.out, Pkhash |-> p.out]]

\* ReadSignature(fn)
ReadSignature(fsys, fn) ==
    IF fsys[fn].kind # "file" THEN [err |-> "io", sig |-> NilSignature]
    ELSE MakeSignature(fsys[fn].data)

RecFiles == {"t.key", "t.pub", "t.sig"}

\* the fields of the three records that hold base64 text
Base64Fields == {"esk", "salt", "verify", "pk", "pkhash", "signature"}

\* the fields each serializer always writes
Written(fn) ==
    IF fn = "t.key" THEN {"esk", "salt", "algo", "verify", "Z", "r", "p"}
    ELSE IF fn = "t.pub" THEN {"pk"}
    ELSE {"signature"}

\* "!!!!": four characters outside the base64 alphabet
NotBase64 == << 33, 33, 33, 33 >>

\* the record as a serializer left it, but for optional fields taken out
Intact(fn, doc) ==
    /\ \A k \in Written(fn) : HasKey(doc, k)
    /\ ~BadYaml(doc)
    /\ \A i \in 1..Len(doc) :
          doc[i][1] \in Base64Fields => doc[i][2] # NotBase64

DropLine(doc, k) == SelectSeq(doc, LAMBDA l : l[1] # k)

SpoilLine(doc, k) ==
    [i \in 1..Len(doc) |-> IF doc[i][1] = k THEN << k, NotBase64 >> ELSE doc[i]]

\* private keys, public keys and signatures whose records may lie on disk:
\* of a generated keypair, and of the zero values Keypair{} and Signature{}
RecPasswords == {<< >>, << 97, 98, 99 >>}

RecKeys == {<< >>} \cup {GenerateKey(q).priv : q \in OneSeed}

RecPubs == {<< >>} \cup {DerivePublic(q) : q \in Seeds}

RecSigs ==
    {NilSignature}
      \cup {SignMessage(NewKeypair(q).Sec, ck).sig : q \in OneSeed, ck \in Messages}
      \cup {[SignMessage(NewKeypair(q).Sec, ck).sig EXCEPT !.Pkhash = << >>] :
               q \in OneSeed, ck \in Messages}

\* cost parameters a record on disk may carry: the defaults, and those
\* of a writer built with 2^14, 8, 1
RecCosts == {DefaultCost, [N |-> 16384, R |-> 8, P |-> 1]}

KeyRecords ==
    {EncryptRecordWith(k, "", pw, salt, cost).out :
        k \in RecKeys, pw \in RecPasswords, salt \in OneSalt,
        cost \in RecCosts}

PubRecords ==
    {MarshalPubKey([Comment |-> c, Pk |-> EncodeToString(P)]) :
        P \in RecPubs, c \in Comments}

SigRecords == {SigSerialize(s, c) : s \in RecSigs, c \in Comments}

RecordsOf(fn) ==
    IF fn = "t.key" THEN KeyRecords
    ELSE IF fn = "t.pub" THEN PubRecords ELSE SigRecords

RecOthers == << wf, kp, sk, pk, sig, wrote, signed, mr, readers, queue, qhist, ring, lg >>

\* a field is lost from a record
DropField ==
    /\ \E fn \in RecFiles :
         /\ fs[fn].kind = "file"
         /\ Intact(fn, fs[fn].data)
         /\ \E i \in 1..Len(fs[fn].data) :
              fs' = [fs EXCEPT ![fn].data = DropLine(@, fs[fn].data[i][1])]
    /\ res' = Res("Damage", "nil")
    /\ UNCHANGED RecOthers

\* a base64 field is overwritten with text that is not base64
SpoilField ==
    /\ \E fn \in RecFiles :
         /\ fs[fn].kind = "file"
         /\ Intact(fn, fs[fn].data)
         /\ \E i \in 1..Len(fs[fn].data) :
              /\ fs[fn].data[i][1] \in Base64Fields
              /\ fs' = [fs EXCEPT ![fn].data = SpoilLine(@, fs[fn].data[i][1])]
    /\ res' = Res("Damage", "nil")
    /\ UNCHANGED RecOthers

\* the file stops being YAML
GarbleFile ==
    /\ \E fn \in RecFiles :
         /\ fs[fn].kind = "file"
         /\ Intact(fn, fs[fn].data)
         /\ fs' = [fs EXCEPT ![fn].data = Append(@, Unparsable)]
    /\ res' = Res("Damage", "nil")
    /\ UNCHANGED RecOthers

CallReadSignature ==
    /\ LET r == ReadSignature(fs, "t.sig")
       IN  /\ sig' = r.sig
           /\ res' = [Res("ReadSignature", r.err) EXCEPT !.fn = "t.sig"]
    /\ UNCHANGED << fs, wf, kp, sk, pk, wrote, signed, mr, readers,
                    queue, qhist, ring, lg >>

\* one record lies on disk, written by an earlier run
InitRec ==
    /\ \E fn \in RecFiles, mode \in {ModeOwner} :
         \E rec \in RecordsOf(fn) :
           fs = [p \in Paths |-> IF p = fn THEN RegFile(rec, mode) ELSE NoFile]
    /\ wf = NoCall
    /\ InitOthers

NextRec ==
    \/ DropField
    \/ SpoilField
    \/ GarbleFile
    \/ CallReadPrivateKey(RecPasswords)
    \/ CallReadPublicKey
    \/ CallReadSignature

SpecRec == InitRec /\ [][NextRec]_vars

\* The Go type of the error value behind each failure of the readers:
\* ioutil.ReadFile's error is passed on as it is, every other error is
\* made by fmt.Errorf and differs from the others in its text only.
ErrorType(e) ==
    IF e = "nil" THEN "nil"
    ELSE IF e = "io" THEN "*os.PathError"
    ELSE "*errors.errorString"

\* ------------------------------------------------------------------------
\* ReadPrivateKey statement by statement, in two goroutines at once.
\* Every value the function works on is a local variable of the call; the
\* file is the only thing the calls have in common.
\* ------------------------------------------------------------------------

RdOthers == << fs, wf, kp, sk, pk, sig, res, wrote, signed, mr, queue, qhist, ring, lg >>

\* whether another goroutine is inside ReadPrivateKey right now
OtherInside(p) ==
    \E o \in Procs \ {p} : readers[o].pc \notin {"idle", "done"}

\* reader p moves on to the values in r
RdStep(p, r) ==
    /\ readers' = [readers EXCEPT
                     ![p] = [r EXCEPT !.mixed = @ \/ OtherInside(p)]]
    /\ UNCHANGED RdOthers

\* a keystream buffer that all goroutines share
XorkSeenShared(rs, p) == rs[1].xork

\* xork is a local variable of the call
XorkSeen(rs, p) == rs[p].xork

\* ReadPrivateKey(fn, pw) is entered
RdCall(p) ==
    /\ readers[p].pc = "idle"
    /\ \E pw \in RecPasswords :
         RdStep(p, [NoReader EXCEPT !.pc = "read", !.pw = pw])

\* yml, err := ioutil.ReadFile(fn)
RdReadFile(p) ==
    /\ readers[p].pc = "read"
    /\ RdStep(p, IF fs["t.key"].kind # "file"
                 THEN [readers[p] EXCEPT !.pc = "done", !.err = "io"]
                 ELSE [readers[p] EXCEPT !.pc = "parse",
                                         !.yml = fs["t.key"].data])

\* yaml.Unmarshal and the three b64 calls
RdParse(p) ==
    /\ readers[p].pc = "parse"
    /\ LET u    == UnmarshalPrivKey(readers[p].yml)
           esk  == DecodeString(u.v.Esk)
           salt == DecodeString(u.v.Salt)
           ver  == DecodeString(u.v.Verify)
       IN  RdStep(p,
             IF u.err THEN [readers[p] EXCEPT !.pc = "done", !.err = "yaml"]
             ELSE IF esk.err \/ salt.err \/ ver.err
             THEN [readers[p] EXCEPT !.pc = "done", !.err = "base64"]
             ELSE [readers[p] EXCEPT !.pc = "expand", !.Esk = esk.out,
                                     !.Salt = salt.out, !.Verify = ver.out,
                                     !.cost = CostOf(u.v)])

\* pwb := sha512.Sum512([]byte(pw))
RdExpand(p) ==
    /\ readers[p].pc = "expand"
    /\ RdStep(p, [readers[p] EXCEPT !.pc = "kdf", !.pwb = Sum512(readers[p].pw)])

\* xork, err := scrypt.Key(pwb[:], esk.Salt, N, r, p, len(esk.Esk))
RdKdf(p) ==
    /\ readers[p].pc = "kdf"
    /\ LET r   == readers[p]
           kdf == ScryptKey(r.pwb, r.Salt, r.cost.N, r.cost.R, r.cost.P,
                            Len(r.Esk))
       IN  RdStep(p, IF kdf.err
                     THEN [r EXCEPT !.pc = "done", !.err = "kdf"]
                     ELSE [r EXCEPT !.pc = "verify", !.xork = kdf.out])

\* ck := sha256(salt, xork); if ConstantTimeCompare(esk.Verify, ck) != 1
RdVerify(p) ==
    /\ readers[p].pc = "verify"
    /\ LET r  == readers[p]
           ck == Sum256(r.Salt \o XorkSeen(readers, p))
       IN  RdStep(p, IF ~ConstantTimeEq(r.Verify, ck)
                     THEN [r EXCEPT !.pc = "done", !.err = "auth"]
                     ELSE [r EXCEPT !.pc = "xor"])

\* the XOR loop; return sk, nil
RdXor(p) ==
    /\ readers[p].pc = "xor"
    /\ LET r == readers[p]
       IN  RdStep(p, [r EXCEPT !.pc = "done", !.err = "nil",
                               !.Sk = DecryptedKey(r.Esk, XorkSeen(readers, p)).Sk])

\* the caller has the result; the locals of the call are garbage
RdReturn(p) ==
    /\ readers[p].pc = "done"
    /\ readers' = [readers EXCEPT ![p] = NoReader]
    /\ UNCHANGED RdOthers

\* one key record lies on disk, or none
InitConc ==
    /\ \E f \in {NoFile} \cup {RegFile(rec, ModeOwner) : rec \in KeyRecords} :
         fs = [p \in Paths |-> IF p = "t.key" THEN f ELSE NoFile]
    /\ wf = NoCall
    /\ InitOthers

NextConc ==
    \E p \in Procs :
        \/ RdCall(p)
        \/ RdReadFile(p)
        \/ RdParse(p)
        \/ RdExpand(p)
        \/ RdKdf(p)
        \/ RdVerify(p)
        \/ RdXor(p)
        \/ RdReturn(p)

SpecConc == InitConc /\ [][NextConc]_vars

\* ------------------------------------------------------------------------
\* util.Q, the fixed-size circular queue
\* ------------------------------------------------------------------------

\* Largest size asked of NewQ.
QCap == 4

QSizes == 1..QCap

\* the values that are enqueued; NilItem is the nil interface value
Items == {10, 20}

NilItem == 0

QOthers == << fs, wf, kp, sk, pk, sig, res, wrote, signed, mr, readers,
             ring, lg >>

RECURSIVE OrBits(_, _)
\* a | b
OrBits(a, b) ==
    IF a = 0 THEN b
    ELSE IF b = 0 THEN a
    ELSE Max2(a % 2, b % 2) + 2 * OrBits(a \div 2, b \div 2)

RECURSIVE AndBits(_, _)
\* a & b
AndBits(a, b) ==
    IF a = 0 \/ b = 0 THEN 0
    ELSE ((a % 2) * (b % 2)) + 2 * AndBits(a \div 2, b \div 2)

\* n >> k
Shr(n, k) == n \div (2 ^ k)

\* Go's uint wraps around at the word size (2^64, or 2^32 on a 32-bit
\* build).  The word here is 30 bits wide, the widest the checker's
\* integers can add in; every count and index of the queue is far below
\* it, so the only wrap-arounds are those of 0 - 1 and of all-ones + 1.
UintBits == 30

UintMod == 2 ^ UintBits

\* nextpow2(n): n -= 1; n |= n >> 1, 2, 4, 8, 16; return n+1
nextpow2(n) ==
    LET n0 == (n - 1) % UintMod
        n1 == OrBits(n0, Shr(n0, 1))
        n2 == OrBits(n1, Shr(n1, 2))
        n3 == OrBits(n2, Shr(n2, 4))
        n4 == OrBits(n3, Shr(n3, 8))
        n5 == OrBits(n4, Shr(n4, 16))
    IN  (n5 + 1) % UintMod

\* NewQ(n): q[i] of the code is q[i + 1] here
NewQ(n) ==
    LET mask == (nextpow2(n) - 1) % UintMod
    IN  [q |-> [i \in 1..((mask + 1) % UintMod) |-> NilItem],
         wr |-> 0, rd |-> 0, mask |-> mask]

\* Flush(): the indices go back to 0 (the slots keep what they hold)
Flush(w) == [w EXCEPT !.wr = 0, !.rd = 0]

\* a full test that never fires
QueueFullNever(wr, rd) == FALSE

\* if wr == w.rd { return false }
QueueFull(wr, rd) == wr = rd

\* Enq(x), under the mutex; w.q[wr] = x panics (index out of range) when
\* wr is not a slot of q, before anything was changed
Enq(w, x) ==
    LET wr == AndBits((1 + w.wr) % UintMod, w.mask)
    IN  IF QueueFull(wr, w.rd)
        THEN [ok |-> FALSE, panic |-> FALSE, w |-> w]
        ELSE IF wr >= Len(w.q)
        THEN [ok |-> FALSE, panic |-> TRUE, w |-> w]
        ELSE [ok |-> TRUE, panic |-> FALSE,
              w |-> [w EXCEPT !.q[wr + 1] = x, !.wr = wr]]

\* a read of the slot the read index came from
DeqSlotOld(w, rd) == w.q[w.rd + 1]

\* item := w.q[rd]
DeqSlot(w, rd) == w.q[rd + 1]

\* Deq(), under the mutex; w.rd is stored before w.q[rd] is read, which
\* panics when rd is not a slot of q
Deq(w) ==
    IF w.rd = w.wr
    THEN [item |-> NilItem, ok |-> FALSE, panic |-> FALSE, w |-> w]
    ELSE LET rd == AndBits((w.rd + 1) % UintMod, w.mask)
         IN  IF rd >= Len(w.q)
             THEN [item |-> NilItem, ok |-> FALSE, panic |-> TRUE,
                   w |-> [w EXCEPT !.rd = rd]]
             ELSE [item |-> DeqSlot(w, rd), ok |-> TRUE, panic |-> FALSE,
                   w |-> [w EXCEPT !.rd = rd, !.q[rd + 1] = NilItem]]

\* a count that forgets the wrap-around
sizeNoWrap(w) == IF w.rd < w.wr THEN w.wr - w.rd ELSE 0

\* size(), the caller holds the lock
size(w) ==
    IF w.wr = w.rd THEN 0
    ELSE IF w.rd < w.wr THEN w.wr - w.rd
    ELSE ((w.mask + 1) - w.rd + w.wr) % UintMod

\* IsEmpty()
IsEmpty(w) == w.rd = w.wr

\* IsFull()
IsFull(w) == w.rd = AndBits((1 + w.wr) % UintMod, w.mask)

\* the slots between the read and the write index, oldest first
Contents(w) == [i \in 1..size(w) |-> w.q[AndBits(w.rd + i, w.mask) + 1]]

CallNewQ(SizeSet) ==
    /\ \E n \in SizeSet :
         /\ queue' = NewQ(n)
         /\ qhist' = [NoQHist EXCEPT !.op = "NewQ", !.ok = TRUE, !.n = n,
                                     !.before = queue]
    /\ UNCHANGED QOthers

CallEnq(ItemSet) ==
    /\ queue # NoQ
    /\ Len(qhist.held) <= QCap + 4
    /\ qhist.net <= 2 * QCap
    /\ \E x \in ItemSet :
         LET r == Enq(queue, x)
         IN  /\ queue' = r.w
             /\ qhist' = [qhist EXCEPT
                            !.op = "Enq", !.ok = r.ok, !.item = x,
                            !.panic = r.panic,
                            !.net = IF r.ok THEN @ + 1 ELSE @,
                            !.was = qhist.held,
                            !.held = IF r.ok THEN Append(@, x) ELSE @,
                            !.before = queue,
                            !.wrapped = @ \/ r.w.wr < queue.wr]
    /\ UNCHANGED QOthers

CallDeq ==
    /\ queue # NoQ
    /\ LET r == Deq(queue)
       IN  /\ queue' = r.w
           /\ qhist' = [qhist EXCEPT
                          !.op = "Deq", !.ok = r.ok, !.item = r.item,
                          !.panic = r.panic,
                          !.net = IF r.ok THEN @ - 1 ELSE @,
                          !.was = qhist.held,
                          !.held = IF r.ok /\ @ # << >> THEN Tail(@) ELSE @,
                          !.before = queue]
    /\ UNCHANGED QOthers

NextQ ==
    \/ CallNewQ(QSizes)
    \/ CallEnq(Items)
    \/ CallDeq

SpecQ == InitAPI /\ [][NextQ]_vars

\* Flush(): what was held is given up
CallFlush ==
    /\ queue # NoQ
    /\ queue' = Flush(queue)
    /\ qhist' = [qhist EXCEPT !.op = "Flush", !.ok = TRUE, !.item = NilItem,
                              !.panic = FALSE, !.was = qhist.held,
                              !.held = << >>, !.before = queue]
    /\ UNCHANGED QOthers

\* Size(), IsEmpty(), IsFull(): the answer is kept in item or in ok
CallSize ==
    /\ queue # NoQ
    /\ qhist' = [qhist EXCEPT !.op = "Size", !.ok = TRUE,
                              !.item = size(queue), !.panic = FALSE,
                              !.was = qhist.held, !.before = queue]
    /\ UNCHANGED << queue, QOthers >>

CallIsEmpty ==
    /\ queue # NoQ
    /\ qhist' = [qhist EXCEPT !.op = "IsEmpty", !.ok = IsEmpty(queue),
                              !.item = NilItem, !.panic = FALSE,
                              !.was = qhist.held, !.before = queue]
    /\ UNCHANGED << queue, QOthers >>

CallIsFull ==
    /\ queue # NoQ
    /\ qhist' = [qhist EXCEPT !.op = "IsFull", !.ok = IsFull(queue),
                              !.item = NilItem, !.panic = FALSE,
                              !.was = qhist.held, !.before = queue]
    /\ UNCHANGED << queue, QOthers >>

\* every sequence of calls from one goroutine, NewQ(0) included; the
\* values enqueued do not matter here
AllQSizes == 0..QCap

OneItem == {10}

NextQOps ==
    \/ CallNewQ(AllQSizes)
    \/ CallEnq(OneItem)
    \/ CallDeq
    \/ CallFlush
    \/ CallSize
    \/ CallIsEmpty
    \/ CallIsFull

SpecQOps == InitAPI /\ [][NextQOps]_vars

\* the specification of Keypair.Serialize under every refusal of the
\* system: one key, one password, one salt
NextSer ==
    \/ CallNewKeypair(OneSeed)
    \/ CallSerialize({<< >>}, {""}, OneSalt, BOOLEAN, Envs)

SpecSer == InitAPI /\ [][NextSer]_vars

\* ------------------------------------------------------------------------
\* ringbuf.Ring, the pool of packet buffers in a buffered channel
\* ------------------------------------------------------------------------

\* Largest number of buffers asked of NewRing.
RingCap == 2

RingSizes == 0..RingCap

RingOthers == << fs, wf, kp, sk, pk, sig, res, wrote, signed, mr, readers,
                 queue, qhist, lg >>

\* a constructor that puts one buffer less into the channel
RingFillShort(n) == [i \in 1..(n - 1) |-> i]

\* for ; n > 0; n -= 1 { u := &PacketBuf{r: r}; ...; r.q <- u }: the
\* buffers are numbered 1..n
RingFill(n) == [i \in 1..n |-> i]

\* NewRing(n): r.q = make(chan *PacketBuf, n), filled with n buffers
NewRing(n) == [NoRing EXCEPT !.made = TRUE, !.Size = n, !.q = RingFill(n)]

\* u := <- r.q can proceed: a buffer is waiting in the channel
CanRecv(r) == Len(r.q) > 0

\* r.q <- u can proceed: the channel of capacity Size has room
CanSend(r) == Len(r.q) < r.Size

CallNewRing(SizeSet) ==
    /\ ~ring.made
    /\ \E n \in SizeSet : ring' = NewRing(n)
    /\ UNCHANGED RingOthers

\* a goroutine calls r.Get()
CallGet(p) ==
    /\ ring.made
    /\ ring.g[p].pc = "idle"
    /\ ring' = [ring EXCEPT !.g[p].pc = "get"]
    /\ UNCHANGED RingOthers

\* u := <- r.q; u.r = r; return u
GetRecv(p) ==
    /\ ring.g[p].pc = "get"
    /\ CanRecv(ring)
    /\ LET u == Head(ring.q)
       IN  ring' = [ring EXCEPT !.q = Tail(@),
                                !.held[p] = @ \cup {u},
                                !.back[p] = @ \ {u},
                                !.g[p] = [pc |-> "idle", u |-> 0]]
    /\ UNCHANGED RingOthers

\* a goroutine calls u.Free() on a buffer it got and has not freed yet
CallFree(p) ==
    /\ ring.g[p].pc = "idle"
    /\ \E u \in ring.held[p] : ring' = [ring EXCEPT !.g[p] = [pc |-> "free", u |-> u]]
    /\ UNCHANGED RingOthers

\* a goroutine calls u.Free() on a buffer it has freed already
CallFreeAgain(p) ==
    /\ ring.g[p].pc = "idle"
    /\ \E u \in ring.back[p] \ ring.held[p] :
         ring' = [ring EXCEPT !.g[p] = [pc |-> "free", u |-> u],
                              !.misuse = TRUE]
    /\ UNCHANGED RingOthers

\* u.Data = u.buf[:]; u.r.q <- u
FreeSend(p) ==
    /\ ring.g[p].pc = "free"
    /\ CanSend(ring)
    /\ LET u == ring.g[p].u
       IN  ring' = [ring EXCEPT !.q = Append(@, u),
                                !.held[p] = @ \ {u},
                                !.back[p] = @ \cup {u},
                                !.g[p] = [pc |-> "idle", u |-> 0]]
    /\ UNCHANGED RingOthers

NextRing ==
    \/ CallNewRing(RingSizes)
    \/ \E p \in Procs :
         \/ CallGet(p)
         \/ GetRecv(p)
         \/ CallFree(p)
         \/ CallFreeAgain(p)
         \/ FreeSend(p)

SpecRing == InitAPI /\ [][NextRing]_vars

\* ------------------------------------------------------------------------
\* util.Q called from two goroutines, one shared access at a time
\* ------------------------------------------------------------------------

\* every goroutine is outside the queue
QQuiet == \A p \in Procs : qhist.g[p].pc = "idle"

\* the step of goroutine p: its new place and locals, the new queue
QcStep(p, r, w) ==
    /\ queue' = w
    /\ qhist' = [qhist EXCEPT !.g[p] = r]
    /\ UNCHANGED QOthers

\* the last step of a call by p: it returns ok and item
QcReturn(p, ok, item, w, unlock) ==
    /\ queue' = w
    /\ qhist' = [qhist EXCEPT
                   !.g[p] = NoQGo,
                   !.l = IF unlock THEN 0 ELSE @,
                   !.done[p] = [op |-> qhist.g[p].op, x |-> qhist.g[p].x,
                                ok |-> ok, item |-> item]]
    /\ UNCHANGED QOthers

\* a goroutine that has made no call since all were outside calls Enq(x),
\* Deq() or Flush()
QcCall(p, ItemSet) ==
    /\ qhist.g[p].pc = "idle"
    /\ QQuiet \/ qhist.done[p].op = ""
    /\ \E op \in {"Enq", "Deq", "Flush"}, x \in ItemSet :
         /\ op # "Enq" => x = CHOOSE y \in ItemSet : TRUE
         /\ qhist' = [qhist EXCEPT
                        !.g[p] = [NoQGo EXCEPT
                                    !.pc = IF op = "Flush" THEN "wr0" ELSE "lock",
                                    !.op = op,
                                    !.x = IF op = "Enq" THEN x ELSE 0],
                        !.base = IF QQuiet THEN queue ELSE @,
                        !.done = IF QQuiet THEN [q \in Procs |-> NoQDone]
                                 ELSE @]
    /\ UNCHANGED << queue, QOthers >>

\* w.l.Lock()
QcLock(p) ==
    /\ qhist.g[p].pc = "lock"
    /\ qhist.l = 0
    /\ qhist' = [qhist EXCEPT !.l = p,
                              !.g[p].pc = IF qhist.g[p].op = "Enq"
                                          THEN "enq_wr" ELSE "deq_rd"]
    /\ UNCHANGED << queue, QOthers >>

\* Enq: wr := (1 + w.wr) & w.mask
QcEnqReadWr(p) ==
    /\ qhist.g[p].pc = "enq_wr"
    /\ QcStep(p, [qhist.g[p] EXCEPT
                    !.pc = "enq_rd",
                    !.wr = AndBits((1 + queue.wr) % UintMod, queue.mask)],
              queue)

\* Enq: if wr == w.rd { return false }
QcEnqReadRd(p) ==
    /\ qhist.g[p].pc = "enq_rd"
    /\ IF QueueFull(qhist.g[p].wr, queue.rd)
       THEN QcReturn(p, FALSE, NilItem, queue, TRUE)
       ELSE QcStep(p, [qhist.g[p] EXCEPT !.pc = "enq_slot"], queue)

\* Enq: w.q[wr] = x
QcEnqSlot(p) ==
    /\ qhist.g[p].pc = "enq_slot"
    /\ QcStep(p, [qhist.g[p] EXCEPT !.pc = "enq_set"],
              [queue EXCEPT !.q[qhist.g[p].wr + 1] = qhist.g[p].x])

\* Enq: w.wr = wr; return true (and the deferred Unlock)
QcEnqSetWr(p) ==
    /\ qhist.g[p].pc = "enq_set"
    /\ QcReturn(p, TRUE, NilItem, [queue EXCEPT !.wr = qhist.g[p].wr], TRUE)

\* Deq: rd := w.rd
QcDeqReadRd(p) ==
    /\ qhist.g[p].pc = "deq_rd"
    /\ QcStep(p, [qhist.g[p] EXCEPT !.pc = "deq_wr", !.rd = queue.rd], queue)

\* Deq: if rd == w.wr { return nil, false }
QcDeqReadWr(p) ==
    /\ qhist.g[p].pc = "deq_wr"
    /\ IF qhist.g[p].rd = queue.wr
       THEN QcReturn(p, FALSE, NilItem, queue, TRUE)
       ELSE QcStep(p, [qhist.g[p] EXCEPT !.pc = "deq_set"], queue)

\* Deq: rd = (rd + 1) & w.mask; w.rd = rd
QcDeqSetRd(p) ==
    /\ qhist.g[p].pc = "deq_set"
    /\ LET rd == AndBits((qhist.g[p].rd + 1) % UintMod, queue.mask)
       IN  QcStep(p, [qhist.g[p] EXCEPT !.pc = "deq_slot", !.rd = rd],
                  [queue EXCEPT !.rd = rd])

\* Deq: item := w.q[rd]
QcDeqSlot(p) ==
    /\ qhist.g[p].pc = "deq_slot"
    /\ QcStep(p, [qhist.g[p] EXCEPT !.pc = "deq_nil",
                                    !.item = queue.q[qhist.g[p].rd + 1]],
              queue)

\* Deq: w.q[rd] = nil; return item, true (and the deferred Unlock)
QcDeqNil(p) ==
    /\ qhist.g[p].pc = "deq_nil"
    /\ QcReturn(p, TRUE, qhist.g[p].item,
                [queue EXCEPT !.q[qhist.g[p].rd + 1] = NilItem], TRUE)

\* Flush: w.wr = 0, without the mutex
QcFlushWr(p) ==
    /\ qhist.g[p].pc = "wr0"
    /\ QcStep(p, [qhist.g[p] EXCEPT !.pc = "rd0"], [queue EXCEPT !.wr = 0])

\* Flush: w.rd = 0
QcFlushRd(p) ==
    /\ qhist.g[p].pc = "rd0"
    /\ QcReturn(p, TRUE, NilItem, [queue EXCEPT !.rd = 0], FALSE)

\* two goroutines on one queue of two or of four slots
InitQConc ==
    /\ fs = [p \in Paths |-> NoFile]
    /\ wf = NoCall
    /\ kp = ZeroKeypair /\ sk = NilPrivateKey /\ pk = NilPublicKey
    /\ sig = NilSignature /\ res = NoRes /\ wrote = NoWrote
    /\ signed = NoSigned /\ mr = NoMap
    /\ readers = [p \in Procs |-> NoReader]
    /\ ring = NoRing /\ lg = NoLog
    /\ \E n \in {2, 4} :
         /\ queue = NewQ(n)
         /\ qhist = [NoQHist EXCEPT !.op = "NewQ", !.n = n, !.base = NewQ(n)]

NextQConc ==
    \E p \in Procs :
        \/ QcCall(p, Items)
        \/ QcLock(p)
        \/ QcEnqReadWr(p)
        \/ QcEnqReadRd(p)
        \/ QcEnqSlot(p)
        \/ QcEnqSetWr(p)
        \/ QcDeqReadRd(p)
        \/ QcDeqReadWr(p)
        \/ QcDeqSetRd(p)
        \/ QcDeqSlot(p)
        \/ QcDeqNil(p)
        \/ QcFlushWr(p)
        \/ QcFlushRd(p)

SpecQConc == InitQConc /\ [][NextQConc]_vars

\* ------------------------------------------------------------------------
\* logger.Logger: callers, the log channel and the qrunner goroutine
\* ------------------------------------------------------------------------

\* Capacity of the log channel (64 at logger.go:201).
LogChCap == 2

\* Number of lines the callers log in one behaviour.
MaxMsgs == 3

LOG_NONE == 0

LOG_DEBUG == 1

LOG_INFO == 2

LOG_WARNING == 3

LOG_ERR == 4

LOG_CRIT == 5

LOG_EMERG == 6

Priorities == LOG_DEBUG..LOG_EMERG

\* the logging methods that take a format and log at a fixed priority
Methods == {"Debug", "Info", "Warn", "Error", "Crit", "Printf", "Print"}

\* the priority a method hands to Output
MethodPrio(meth) ==
    CASE meth = "Debug"  -> LOG_DEBUG
      [] meth = "Info"   -> LOG_INFO
      [] meth = "Warn"   -> LOG_WARNING
      [] meth = "Error"  -> LOG_ERR
      [] meth = "Crit"   -> LOG_CRIT
      [] meth = "Printf" -> LOG_INFO
      [] meth = "Print"  -> LOG_INFO

\* whether the method asks l.Loggable before it calls Output
AsksLoggable(meth) == meth \in {"Debug", "Info", "Warn", "Error", "Crit"}

\* a predicate that lets everything through
LoggableAlways(lprio, prio) == TRUE

\* Loggable(prio): l.prio >= LOG_NONE && prio >= l.prio
Loggable(lprio, prio) == lprio >= LOG_NONE /\ prio >= lprio

\* l.New(prefix, prio): if prio == LOG_NONE { prio = l.prio }
SubPrio(top, asked) == IF asked = LOG_NONE THEN top ELSE asked

\* New(out, prio, prefix, flag) followed by l.New(prefix, asked); file:
\* the logger came from NewFilelog (lClose)
NewLog(top, asked, file) ==
    [NoLog EXCEPT !.prio = [l \in {"top", "sub"} |->
                              IF l = "top" THEN top ELSE SubPrio(top, asked)],
                  !.file = file]

LogOthers == << fs, wf, kp, sk, pk, sig, res, wrote, signed, mr, readers,
                queue, qhist, ring >>

\* the program has not crashed
LogAlive == ~lg.panic

\* a range loop that leaves the line it received in the channel
RecvRestSame(ch) == ch

\* for s := range l.ch.logch: the channel after the receive
RecvRest(ch) == Tail(ch)

\* a caller logs through meth on logger l: nothing happens when Loggable
\* says no, else Output formats the line and calls qwrite
LogCall(p, MethodSet, LoggerSet) ==
    /\ LogAlive
    /\ lg.g[p].pc = "idle"
    /\ lg.next <= MaxMsgs
    /\ \E meth \in MethodSet, l \in LoggerSet :
         IF AsksLoggable(meth) /\ ~Loggable(lg.prio[l], MethodPrio(meth))
         THEN lg' = [lg EXCEPT !.g[p] = [NoGo EXCEPT !.op = meth, !.l = l]]
         ELSE lg' = [lg EXCEPT
                       !.g[p] = [pc |-> "lock", op |-> meth, l |-> l,
                                 s  |-> [id |-> lg.next,
                                         prio |-> MethodPrio(meth),
                                         lprio |-> lg.prio[l],
                                         via |-> meth, l |-> l],
                                 z  |-> 0],
                       !.next = @ + 1]
    /\ UNCHANGED LogOthers

\* a caller calls l.Backtrace(depth): the text is built, then closed is
\* loaded and the text sent, both without the mutex
LogBacktrace(p, LoggerSet) ==
    /\ LogAlive
    /\ lg.g[p].pc = "idle"
    /\ lg.next <= MaxMsgs
    /\ \E l \in LoggerSet :
         lg' = [lg EXCEPT
                  !.g[p] = [pc |-> "load", op |-> "Backtrace", l |-> l,
                            s  |-> [id |-> lg.next, prio |-> LOG_NONE,
                                    lprio |-> lg.prio[l],
                                    via |-> "Backtrace", l |-> l],
                            z  |-> 0],
                  !.next = @ + 1]
    /\ UNCHANGED LogOthers

\* a caller calls l.Close(): a sub-logger returns at once
LogClose(p, LoggerSet) ==
    /\ LogAlive
    /\ lg.g[p].pc = "idle"
    /\ \E l \in LoggerSet :
         lg' = [lg EXCEPT
                  !.g[p] = [NoGo EXCEPT
                              !.pc = IF l = "sub" THEN "ret" ELSE "lock",
                              !.op = "Close", !.l = l]]
    /\ UNCHANGED LogOthers

\* l.ch.Lock(), in qwrite and in closeCh
ChLock(p) ==
    /\ LogAlive
    /\ lg.g[p].pc = "lock"
    /\ lg.mu = 0
    /\ lg' = [lg EXCEPT !.mu = p,
                        !.g[p].pc = IF lg.g[p].op = "Close" THEN "swap"
                                    ELSE "load"]
    /\ UNCHANGED LogOthers

\* if z := atomic.LoadUint32(&l.ch.closed); z == 0 { ... }
LoadClosed(p) ==
    /\ LogAlive
    /\ lg.g[p].pc = "load"
    /\ lg' = [lg EXCEPT
                !.g[p].z = lg.closed,
                !.g[p].pc = IF lg.closed = 0 THEN "send"
                            ELSE IF lg.g[p].op = "Backtrace" THEN "ret"
                            ELSE "unlock"]
    /\ UNCHANGED LogOthers

\* l.ch.logch <- s: a send on a closed channel panics, a send on a full
\* one waits
ChSend(p) ==
    /\ LogAlive
    /\ lg.g[p].pc = "send"
    /\ IF ~lg.chOpen
       THEN lg' = [lg EXCEPT !.panic = TRUE, !.g[p].pc = "panic"]
       ELSE /\ Len(lg.logch) < LogChCap
            /\ lg' = [lg EXCEPT
                        !.logch = Append(@, lg.g[p].s),
                        !.accepted = Append(@, lg.g[p].s),
                        !.g[p].pc = IF lg.g[p].op = "Backtrace" THEN "ret"
                                    ELSE "unlock"]
    /\ UNCHANGED LogOthers

\* r = atomic.SwapUint32(&l.ch.closed, 1)
SwapClosed(p) ==
    /\ LogAlive
    /\ lg.g[p].pc = "swap"
    /\ lg' = [lg EXCEPT !.g[p].z = lg.closed,
                        !.closed = 1,
                        !.g[p].pc = IF lg.closed = 0 THEN "close"
                                    ELSE "unlock"]
    /\ UNCHANGED LogOthers

\* close(l.ch.logch)
CloseLogch(p) ==
    /\ LogAlive
    /\ lg.g[p].pc = "close"
    /\ lg' = [lg EXCEPT !.chOpen = FALSE,
                        !.atClose = lg.accepted,
                        !.g[p].pc = "unlock"]
    /\ UNCHANGED LogOthers

\* l.ch.Unlock(); Close goes on to wait when its closeCh returned 0
ChUnlock(p) ==
    /\ LogAlive
    /\ lg.g[p].pc = "unlock"
    /\ lg' = [lg EXCEPT
                !.mu = 0,
                !.g[p].pc = IF lg.g[p].op = "Close" /\ lg.g[p].z = 0
                            THEN "wait" ELSE "ret"]
    /\ UNCHANGED LogOthers

\* _, _ = <- l.wait: returns once qrunner has closed the channel
WaitDone(p) ==
    /\ LogAlive
    /\ lg.g[p].pc = "wait"
    /\ lg.waitClosed
    /\ lg' = [lg EXCEPT !.g[p].pc = "ret"]
    /\ UNCHANGED LogOthers

\* the call returns
LogReturn(p) ==
    /\ LogAlive
    /\ lg.g[p].pc = "ret"
    /\ lg' = [lg EXCEPT !.g[p] = NoGo]
    /\ UNCHANGED LogOthers

\* qrunner: for s := range l.ch.logch
QrRecv ==
    /\ LogAlive
    /\ lg.run.pc = "recv"
    /\ Len(lg.logch) > 0
    /\ lg' = [lg EXCEPT !.run = [pc |-> "write", s |-> Head(lg.logch)],
                        !.logch = RecvRest(@)]
    /\ UNCHANGED LogOthers

\* qrunner: l.out.Write([]byte(s))
QrWrite ==
    /\ LogAlive
    /\ lg.run.pc = "write"
    /\ lg' = [lg EXCEPT !.out = Append(@, lg.run.s),
                        !.run = [pc |-> "recv", s |-> NoMsg]]
    /\ UNCHANGED LogOthers

\* qrunner: the range loop ends when the channel is closed and empty
QrRangeEnd ==
    /\ LogAlive
    /\ lg.run.pc = "recv"
    /\ Len(lg.logch) = 0
    /\ ~lg.chOpen
    /\ lg' = [lg EXCEPT !.run.pc = IF lg.file THEN "closefile"
                                   ELSE "closewait"]
    /\ UNCHANGED LogOthers

\* qrunner: if (l.flag & lClose) != 0 { fd.Close() }
QrCloseFile ==
    /\ LogAlive
    /\ lg.run.pc = "closefile"
    /\ lg' = [lg EXCEPT !.fileClosed = TRUE, !.run.pc = "closewait"]
    /\ UNCHANGED LogOthers

\* qrunner: close(l.wait)
QrCloseWait ==
    /\ LogAlive
    /\ lg.run.pc = "closewait"
    /\ lg' = [lg EXCEPT !.waitClosed = TRUE, !.run.pc = "done"]
    /\ UNCHANGED LogOthers

InitLog(TopPrios, AskedPrios, FileSet) ==
    /\ fs = [p \in Paths |-> NoFile]
    /\ wf = NoCall
    /\ kp = ZeroKeypair /\ sk = NilPrivateKey /\ pk = NilPublicKey
    /\ sig = NilSignature /\ res = NoRes /\ wrote = NoWrote
    /\ signed = NoSigned /\ mr = NoMap
    /\ readers = [p \in Procs |-> NoReader]
    /\ queue = NoQ /\ qhist = NoQHist /\ ring = NoRing
    /\ \E top \in TopPrios, asked \in AskedPrios, file \in FileSet :
         lg = NewLog(top, asked, file)

\* two goroutines log, take backtraces and close, on a logger and its
\* sub-logger, while qrunner writes
NextLog ==
    \/ \E p \in Procs :
         \/ LogCall(p, {"Printf"}, {"top", "sub"})
         \/ LogBacktrace(p, {"top"})
         \/ LogClose(p, {"top", "sub"})
         \/ ChLock(p)
         \/ LoadClosed(p)
         \/ ChSend(p)
         \/ SwapClosed(p)
         \/ CloseLogch(p)
         \/ ChUnlock(p)
         \/ WaitDone(p)
         \/ LogReturn(p)
    \/ QrRecv
    \/ QrWrite
    \/ QrRangeEnd
    \/ QrCloseFile
    \/ QrCloseWait

SpecLog == InitLog({LOG_INFO}, {LOG_NONE}, BOOLEAN) /\ [][NextLog]_vars

\* one goroutine logs through every method on loggers of every priority
NextLvl ==
    \/ \E p \in {1} :
         \/ LogCall(p, Methods, {"top", "sub"})
         \/ ChLock(p)
         \/ LoadClosed(p)
         \/ ChSend(p)
         \/ ChUnlock(p)
         \/ LogReturn(p)
    \/ QrRecv
    \/ QrWrite

SpecLvl ==
    InitLog(LOG_NONE..LOG_EMERG, {LOG_NONE, LOG_ERR}, {FALSE})
        /\ [][NextLvl]_vars

\* ========================================================================
\* Properties
\* ========================================================================


\* C9: while writeFile runs, and after it ended or was interrupted, the
\* target holds either exactly what it held when the call began (or is
\* still absent) or a regular file with the complete new bytes b; up to
\* the rename, and after an interruption before it, the target is unchanged.
C9_AtomicReplace ==
    wf.pc # "idle" =>
        /\ \/ fs[wf.fn] = wf.prior
           \/ fs[wf.fn].kind = "file" /\ fs[wf.fn].data = wf.b
        /\ wf.pc \in WfActive \cup {"crashed", "panic"} => fs[wf.fn] = wf.prior

\* C9 witness: interrupted after the temporary file was written in full,
\* over a target that held other bytes.
C9_Witness ==
    /\ wf.pc = "crashed"
    /\ wf.b # << >>
    /\ fs[TmpName(wf.fn)].kind = "file"
    /\ fs[TmpName(wf.fn)].data = wf.b
    /\ wf.prior.kind = "file"
    /\ wf.prior.data # wf.b

\* C10: once creating or writing the temporary file has failed, the target
\* is exactly what it was before the call, and the call returns an error.
C10_WriteFailureLeavesTarget ==
    wf.fault \in {"create", "write"} =>
        /\ fs[wf.fn] = wf.prior
        /\ wf.pc = "done" => wf.ret = wf.fault

\* C10 witness: a write that stopped half way has returned its error.
C10_Witness ==
    /\ wf.pc = "done"
    /\ wf.fault = "write"
    /\ wf.ret = "write"
    /\ wf.prior.kind = "file"
    /\ Len(fs[TmpName(wf.fn)].data) > 0
    /\ Len(fs[TmpName(wf.fn)].data) < Len(wf.b)

\* The last call was ReadPrivateKey on bn.key, which holds the record that
\* the last serialize of the private key put there.
ReadBackOfWritten ==
    /\ res.op = "ReadPrivateKey"
    /\ res.fn = "t.key"
    /\ wrote.valid
    /\ fs["t.key"].kind = "file"
    /\ fs["t.key"].data = wrote.out

\* C1: reading back, with the password it was written under, the record of
\* a non-empty private key succeeds and returns exactly the key bytes that
\* were serialized.
C1_RoundTrip ==
    (ReadBackOfWritten /\ res.pw = wrote.pw /\ Len(wrote.Sk) > 0) =>
        /\ res.err = "nil"
        /\ ~sk.nil
        /\ sk.Sk = wrote.Sk

\* C1 witness: a generated key written under the empty password was read
\* back with the empty password.
C1_Witness ==
    /\ ReadBackOfWritten
    /\ res.pw = wrote.pw
    /\ res.pw = << >>
    /\ Len(wrote.Sk) = PrivateKeySize
    /\ res.err = "nil"

\* C2: reading a written key file with any other password fails with the
\* authentication error, returns no key and never runs the XOR loop.
C2_WrongPassword ==
    (ReadBackOfWritten /\ res.pw # wrote.pw) =>
        /\ res.err = "auth"
        /\ sk.nil
        /\ ~res.xored

\* C2 restricted to records of a non-empty key
C2_WrongPasswordNonEmpty ==
    (ReadBackOfWritten /\ res.pw # wrote.pw /\ Len(wrote.Sk) > 0) =>
        /\ res.err = "auth"
        /\ sk.nil
        /\ ~res.xored

\* The last call verified the digest that was signed, with the public key
\* that belongs to the signing key.
VerifiedWhatWasSigned ==
    /\ res.op = "VerifyMessage"
    /\ signed.valid
    /\ res.ck = signed.ck
    /\ res.Pk = signed.Pk

\* C3: a signature made by SignMessage with the private key of a keypair
\* from NewKeypair over a digest verifies, with a nil error, under that
\* keypair's public key and the same digest.
C3_SignVerify ==
    (VerifiedWhatWasSigned /\ ~signed.loaded) =>
        /\ res.ok
        /\ res.err = "nil"

\* C3 witness: such a verification has returned true.
C3_Witness ==
    /\ VerifiedWhatWasSigned
    /\ ~signed.loaded
    /\ res.key = "kp"
    /\ res.ok

\* The data file holds what it held when it was signed, and was verified
\* with the public key that belongs to the signing key.
VerifiedUnchangedFile ==
    /\ res.op = "VerifyFile"
    /\ signed.valid
    /\ signed.fn = "f"
    /\ fs["f"].kind = "file"
    /\ fs["f"].data = signed.data
    /\ res.Pk = signed.Pk

\* C4: a file signed by SignFile and left unchanged verifies under the
\* matching public key with a nil error; in particular when both keys were
\* written by Keypair.Serialize and read back from disk.
C4_FileSignVerify ==
    VerifiedUnchangedFile =>
        /\ res.ok
        /\ res.err = "nil"

\* C4 witness: signed with the private key read from bn.key, verified
\* with the public key read from bn.pub, file of more than one window.
C4_Witness ==
    /\ VerifiedUnchangedFile
    /\ signed.loaded
    /\ res.key = "pk"
    /\ Len(signed.data) > chunk
    /\ res.ok

\* C5: once the content of a signed file differs from what was signed (a
\* byte flipped, a byte cut off the end), VerifyFile with a well-formed
\* public key answers false with a nil error.
C5_TamperDetected ==
    ( /\ res.op = "VerifyFile"
      /\ signed.valid
      /\ signed.fn = "f"
      /\ fs["f"].kind = "file"
      /\ fs["f"].data # signed.data
      /\ Len(res.Pk) = PublicKeySize ) =>
        /\ ~res.ok
        /\ res.err = "nil"

\* C5 witness: the last byte outside the first window was cut off the
\* signed file and the right key then answered false.
C5_Witness ==
    /\ res.op = "VerifyFile"
    /\ signed.valid
    /\ res.Pk = signed.Pk
    /\ Len(signed.data) > chunk
    /\ fs["f"].data = SubSeq(signed.data, 1, Len(signed.data) - 1)
    /\ ~res.ok
    /\ res.err = "nil"

\* C6: VerifyMessage with a well-formed public key never fails; it answers
\* false whenever the digest is not the one signed or the key is not the
\* signer's (or nothing was signed at all).
C6_MismatchIsFalse ==
    (res.op = "VerifyMessage" /\ Len(res.Pk) = PublicKeySize) =>
        /\ res.err = "nil"
        /\ (~signed.valid \/ res.ck # signed.ck \/ res.Pk # signed.Pk) => ~res.ok

\* C6 witness: the signer's key was given a prefix of the signed digest.
C6_Witness ==
    /\ res.op = "VerifyMessage"
    /\ signed.valid
    /\ res.Pk = signed.Pk
    /\ res.ck # signed.ck
    /\ res.ck = SubSeq(signed.ck, 1, Len(res.ck))
    /\ ~res.ok
    /\ res.err = "nil"

\* C7: a signature that still carries the hint SignMessage or SignFile gave
\* it matches, by IsPKMatch, the public key paired with the signing key -
\* also when the signing key was read from disk.
C7_KeyHint ==
    ( /\ res.op = "IsPKMatch"
      /\ res.err = "nil"
      /\ signed.valid
      /\ sig.Pkhash = signed.hint
      /\ res.Pk = signed.Pk ) => res.ok

\* C8: the answer of VerifyMessage is the same for every key-hint the
\* signature could carry; and a signature whose hint is not the signer's
\* fails IsPKMatch for the signer's key while it still verifies.
C8_HintIsAdvisory ==
    /\ (res.op = "VerifyMessage" /\ res.err = "nil") =>
          \A h \in Hints :
            VerifyMessage([nil |-> FALSE, Pk |-> res.Pk], res.ck,
                          [sig EXCEPT !.Pkhash = h]).ok = res.ok
    /\ (signed.valid /\ sig.Pkhash # SubSeq(Sum256(signed.Pk), 1, HintSize)) =>
          /\ (res.op = "IsPKMatch" /\ res.err = "nil" /\ res.Pk = signed.Pk)
                => ~res.ok
          /\ (VerifiedWhatWasSigned /\ res.err = "nil") => res.ok

\* C8 witness: the hint of a fresh key's signature was overwritten and the
\* signature then verified under the signer's key.
C8_Witness ==
    /\ VerifiedWhatWasSigned
    /\ ~signed.loaded
    /\ sig.Pkhash # signed.hint
    /\ res.ok

\* C11: a writeFile whose final rename failed returns an error and leaves
\* the target as it was; and a writeFile that returned nil has put the new
\* bytes at the target.
C11_RenameFailureIsFatal ==
    wf.pc = "done" =>
        /\ wf.fault = "rename" => (wf.ret # "nil" /\ fs[wf.fn] = wf.prior)
        /\ wf.ret = "nil" => (fs[wf.fn].kind = "file" /\ fs[wf.fn].data = wf.b)

\* The windows mapped so far lie end to end from offset `from`, in
\* ascending order, none empty and none longer than the window size.
WindowsInOrder(ws, from) ==
    \A i \in 1..Len(ws) :
        /\ ws[i][2] > 0
        /\ ws[i][2] <= chunk
        /\ ws[i][1] = IF i = 1 THEN from ELSE ws[i - 1][1] + ws[i - 1][2]

\* A digest of the whole non-empty file has run to its end without an
\* error: fileCksum, MmapReader(fd, 0, 0, h) or MmapReader(fd, 0, size, h).
WholeFileDigested ==
    /\ mr.pc = "done"
    /\ mr.err = "nil"
    /\ Len(fs["f"].data) > 0
    /\ \/ mr.fun = "fileCksum"
       \/ mr.fun = "MmapReader" /\ mr.off0 = 0
            /\ mr.sz0 \in {0, Len(fs["f"].data)}

C13_ZeroLengthToEnd ==
    ( /\ mr.fun = "MmapReader"
      /\ mr.sz0 = 0
      /\ mr.off0 < Len(fs["f"].data) ) =>
        /\ \A i \in 1..Len(mr.wins) :
              mr.wins[i][1] + mr.wins[i][2] <= Len(fs["f"].data)
        /\ (mr.pc = "done" /\ mr.err = "nil") =>
              mr.fed = SubSeq(fs["f"].data, mr.off0 + 1, Len(fs["f"].data))

\* C14: MmapReader with an offset at or beyond the size of the file maps
\* nothing, writes nothing and returns the range error (unless fstat
\* itself failed), whatever the length asked for.
C14_RangeCheck ==
    (mr.fun = "MmapReader" /\ mr.off0 >= Len(fs["f"].data)) =>
        /\ mr.wins = << >>
        /\ mr.fed = << >>
        /\ mr.pc = "done" => mr.err \in {"range", "stat"}

\* C15: MmapReader(fd, off, len, wr) with len > 0, off < filesize and
\* off + len <= filesize, when the system refuses no mmap, returns nil
\* and has fed the writer exactly the bytes [off, off + len).
C15_ExplicitRange ==
    ( /\ mr.fun = "MmapReader"
      /\ mr.pc = "done"
      /\ mr.sz0 > 0
      /\ mr.off0 < Len(fs["f"].data)
      /\ mr.off0 + mr.sz0 <= Len(fs["f"].data)
      /\ mr.err # "mmap" ) =>
        /\ mr.err = "nil"
        /\ mr.fed = SubSeq(fs["f"].data, mr.off0 + 1, mr.off0 + mr.sz0)

\* C16: at most one window is mapped at any moment of fileCksum and
\* MmapReader; none is mapped when the loop asks for the next one, and
\* none when the call has returned, with or without an error.
C16_OneWindowAtATime ==
    /\ Cardinality(mr.mapped) <= 1
    /\ mr.pc \in {"idle", "stat", "check", "loop", "done"} => mr.mapped = {}

\* C16 witness: the third mmap of a call was refused; the call returned
\* the error after two windows had been mapped and released.
C16_Witness ==
    /\ mr.pc = "done"
    /\ mr.err = "mmap"
    /\ Len(mr.wins) = 2
    /\ mr.mapped = {}

\* The last call read the signature record that lies at t.sig.
ReadTheSignature == res.op = "ReadSignature" /\ fs["t.sig"].kind = "file"

\* C17: ReadSignature/MakeSignature fails when a binary field of the record
\* is not base64 or when the signature field is missing or empty; it
\* succeeds on a record with a well-formed signature whose pkhash and
\* comment are absent or well-formed; and a Signature it returns never has
\* an empty Sig.
C17_SignatureParsing ==
    ReadTheSignature =>
        LET doc == fs["t.sig"].data
            s   == DecodeString(Lookup(doc, "signature", << >>))
            p   == DecodeString(Lookup(doc, "pkhash", << >>))
        IN  /\ (s.err \/ p.err \/ Len(s.out) = 0) => res.err # "nil"
            /\ (~BadYaml(doc) /\ ~s.err /\ ~p.err /\ Len(s.out) > 0)
                  => res.err = "nil"
            /\ res.err = "nil" => Len(sig.Sig) > 0

\* The last call was ReadPrivateKey on a file that is still there.
ReadAKeyRecord == res.op = "ReadPrivateKey" /\ fs[res.fn].kind = "file"

\* C18: ReadPrivateKey fails, with every password, on a record whose esk,
\* salt or verify field is missing or empty (a public-key file is one);
\* it returns no key and does not decrypt.
C18_RecordValidation ==
    ( /\ ReadAKeyRecord
      /\ \E k \in {"esk", "salt", "verify"} :
            Lookup(fs[res.fn].data, k, << >>) = << >> ) =>
        /\ res.err # "nil"
        /\ sk.nil
        /\ ~res.xored

\* The last call was ReadPublicKey on a file that is still there.
ReadAPubRecord == res.op = "ReadPublicKey" /\ fs[res.fn].kind = "file"

\* C19: ReadPublicKey fails and returns no key when the pk field is
\* missing, is not base64 or decodes to no bytes (a private-key file has no
\* pk field); on the record PublicKey.serialize writes for a non-empty key,
\* with or without a comment, it returns exactly that key.
C19_PublicKeyDecoding ==
    ReadAPubRecord =>
        LET doc == fs[res.fn].data
            d   == DecodeString(Lookup(doc, "pk", << >>))
        IN  /\ (d.err \/ Len(d.out) = 0) => (res.err # "nil" /\ pk.nil)
            /\ \A P \in RecPubs, c \in Comments :
                  ( /\ Len(P) > 0
                    /\ doc = MarshalPubKey([Comment |-> c,
                                            Pk |-> EncodeToString(P)]) ) =>
                      /\ res.err = "nil"
                      /\ ~pk.nil
                      /\ pk.Pk = P

\* C19 witness: the record of a generated public key, written with a
\* comment, was read back.
C19_Witness ==
    /\ ReadAPubRecord
    /\ res.fn = "t.pub"
    /\ res.err = "nil"
    /\ \E q \in Seeds : pk.Pk = DerivePublic(q)
    /\ Lookup(fs["t.pub"].data, "comment", "") = "c"

\* C20: the error ReadPrivateKey returns for a password that fails the
\* verification tag is of another kind than the errors for a malformed
\* record and for I/O failures, and it is returned for well-formed
\* records only, so a retry with another password has a point.
C20_ErrorKinds ==
    (ReadAKeyRecord /\ res.err = "auth") =>
        /\ ErrorType("auth") \notin {ErrorType(e) : e \in {"yaml", "base64", "io"}}
        /\ Intact("t.key", fs[res.fn].data)

\* C20 restricted to the second half: the wrong-password error comes for
\* records with all their fields only.
C20_AuthOnlyForIntactRecords ==
    (ReadAKeyRecord /\ res.err = "auth") => Intact("t.key", fs[res.fn].data)

\* C21: VerifyMessage handed a public key that is not PublicKeySize bytes
\* long returns an error: it neither answers true or false with a nil
\* error nor crashes.
C21_MalformedKeyIsError ==
    (res.op = "VerifyMessage" /\ Len(res.Pk) # PublicKeySize) =>
        res.err \notin {"nil", "panic"}

\* C22: the record PrivateKey.serialize writes carries the cost parameters
\* the keystream was derived with (2^17, 16, 1), and ReadPrivateKey uses
\* the parameters of the record: a record of a non-empty key written with
\* any parameters, default or not, yields that key under its password and
\* the authentication error under another one.
C22_CostParametersTravel ==
    /\ \A k \in RecKeys, pw \in RecPasswords, salt \in OneSalt :
          LET u == UnmarshalPrivKey(EncryptRecord(k, "", pw, salt).out)
          IN  ~u.err /\ CostOf(u.v) = DefaultCost
    /\ ReadAKeyRecord =>
          \A k \in RecKeys, pw \in RecPasswords, salt \in OneSalt,
             cost \in RecCosts :
            ( /\ Len(k) > 0
              /\ fs[res.fn].data
                   = EncryptRecordWith(k, "", pw, salt, cost).out ) =>
                IF res.pw = pw
                THEN res.err = "nil" /\ sk.Sk = k
                ELSE res.err = "auth" /\ sk.nil

\* C22 witness: a record written with 2^14, 8, 1 was decrypted with its
\* password.
C22_Witness ==
    /\ ReadAKeyRecord
    /\ res.err = "nil"
    /\ Len(sk.Sk) = PrivateKeySize
    /\ CostOf(UnmarshalPrivKey(fs[res.fn].data).v) # DefaultCost

\* C23: reading the record Signature.Serialize makes of a Signature, with
\* or without a comment, succeeds and returns a Signature with the same
\* Sig and the same Pkhash, byte for byte.
C23_SignatureRoundTrip ==
    ReadTheSignature =>
        \A s \in RecSigs, c \in Comments :
            fs["t.sig"].data = SigSerialize(s, c) =>
                /\ res.err = "nil"
                /\ sig.Sig = s.Sig
                /\ sig.Pkhash = s.Pkhash

\* C23 witness: the record of a signature of SignMessage, written with a
\* comment, was read back.
C23_Witness ==
    /\ ReadTheSignature
    /\ res.err = "nil"
    /\ Len(sig.Sig) = SignatureSize
    /\ Len(sig.Pkhash) = HintSize
    /\ fs["t.sig"].data = SigSerialize(sig, "c")

\* Goroutine p has finished its call with the result the call has when it
\* runs alone on the record.
ResultAsAlone(p) ==
    LET alone == ReadPrivateKey(fs, "t.key", readers[p].pw)
    IN  /\ readers[p].err = alone.err
        /\ readers[p].Sk = alone.sk.Sk

\* C24: no step of ReadPrivateKey changes the key file, and whenever a
\* goroutine finishes its call - whatever the other goroutine did in the
\* meantime, with whatever password - it holds exactly the error and key
\* that the call returns when run alone.
C24_ConcurrentDecryption ==
    /\ [](\A p \in Procs : readers[p].pc = "done" => ResultAsAlone(p))
    /\ [][fs' = fs]_vars

\* C24 witness: two calls on the same record that ran interleaved have
\* both finished, one with the key and one with the wrong password.
C24_Witness ==
    /\ readers[1].pc = "done" /\ readers[2].pc = "done"
    /\ readers[1].mixed /\ readers[2].mixed
    /\ readers[1].pw # readers[2].pw
    /\ readers[1].err = "nil" /\ Len(readers[1].Sk) > 0
    /\ readers[2].err = "auth"

\* C25: when ReadPrivateKey has returned, with a key or with an error, the
\* buffers that held the expanded password and the keystream hold zeros.
C25_PasswordMaterialCleared ==
    \A p \in Procs :
        readers[p].pc = "done" =>
            /\ \A i \in 1..Len(readers[p].pwb) : readers[p].pwb[i] = 0
            /\ \A i \in 1..Len(readers[p].xork) : readers[p].xork[i] = 0

\* C26: during and after a writeFile with mode 0600 (the private-key
\* record), a file at the target or at its temporary sibling that this
\* call has filled with the record is readable by its owner only - also
\* when a temporary file with wider permissions lay there before.
C26_OwnerOnlyKeyFile ==
    (wf.pc # "idle" /\ wf.mode = ModeOwner /\ wf.b # << >>) =>
        /\ ( /\ fs[TmpName(wf.fn)].kind = "file"
             /\ fs[TmpName(wf.fn)].data = wf.b
             /\ fs[TmpName(wf.fn)] # wf.stale ) =>
               fs[TmpName(wf.fn)].mode = ModeOwner
        /\ ( /\ fs[wf.fn].kind = "file"
             /\ fs[wf.fn].data = wf.b
             /\ fs[wf.fn] # wf.prior ) =>
               fs[wf.fn].mode = ModeOwner

\* C26 restricted to calls that found no temporary file, or removed it
C26_OwnerOnlyWithoutStaleFile ==
    ( /\ wf.pc # "idle" /\ wf.mode = ModeOwner /\ wf.b # << >>
      /\ wf.stale.kind = "none" ) =>
        /\ (fs[TmpName(wf.fn)].kind = "file")
              => fs[TmpName(wf.fn)].mode = ModeOwner
        /\ (fs[wf.fn].kind = "file" /\ fs[wf.fn] # wf.prior)
              => fs[wf.fn].mode = ModeOwner

\* C28: a writeFile that finds a temporary file left behind does not
\* crash; when it returns nil the target holds exactly the new bytes and
\* the temporary file is gone.
C28_StaleTemporaryFile ==
    (wf.pc # "idle" /\ wf.stale.kind # "none") =>
        /\ wf.pc # "panic"
        /\ (wf.pc = "done" /\ wf.ret = "nil") =>
              /\ fs[wf.fn].kind = "file"
              /\ fs[wf.fn].data = wf.b
              /\ fs[TmpName(wf.fn)].kind = "none"

\* C28 restricted to a stale regular file and a rename that works
C28_StaleRegularFileReplaced ==
    ( /\ wf.pc = "done" /\ wf.ret = "nil"
      /\ wf.stale.kind = "file" /\ wf.fault # "rename" ) =>
        /\ fs[wf.fn].kind = "file"
        /\ fs[wf.fn].data = wf.b
        /\ fs[TmpName(wf.fn)].kind = "none"

\* the decoded esk field of a key record
EskOf(doc) == DecodeString(Lookup(doc, "esk", << >>)).out

\* C27: the esk field of the record PrivateKey.serialize produces has as
\* many bytes as the key that was serialized, and a key returned by
\* ReadPrivateKey has as many bytes as the esk field of the record read.
C27_CiphertextLength ==
    /\ wrote.valid => Len(EskOf(wrote.out)) = Len(wrote.Sk)
    /\ (ReadAKeyRecord /\ res.err = "nil") =>
          /\ ~sk.nil
          /\ Len(sk.Sk) = Len(EskOf(fs[res.fn].data))

\* C27 witness: a generated key was serialized and read back; record and
\* returned key both have the full key length.
C27_Witness ==
    /\ ReadBackOfWritten
    /\ res.err = "nil"
    /\ Len(wrote.Sk) = PrivateKeySize
    /\ Len(EskOf(fs["t.key"].data)) = PrivateKeySize
    /\ Len(sk.Sk) = PrivateKeySize

\* C29: every successful Deq returns the oldest item that was enqueued and
\* not yet dequeued, a Deq fails only when there is none, and the slots
\* between the two indices always hold exactly the outstanding items in
\* the order of their Enq calls.
C29_FifoOrder ==
    queue # NoQ =>
        /\ Contents(queue) = qhist.held
        /\ (qhist.op = "Deq" /\ qhist.ok) =>
              /\ qhist.was # << >>
              /\ qhist.item = Head(qhist.was)
              /\ qhist.held = Tail(qhist.was)
        /\ (qhist.op = "Deq" /\ ~qhist.ok) => qhist.was = << >>
        /\ (qhist.op = "Enq" /\ qhist.ok) =>
              qhist.held = Append(qhist.was, qhist.item)

\* C29 witness: a Deq whose read index wrapped to 0, after the write index
\* had wrapped, returned the older of two different outstanding items.
C29_Witness ==
    /\ queue # NoQ
    /\ queue.mask = 3
    /\ qhist.op = "Deq" /\ qhist.ok
    /\ qhist.wrapped
    /\ queue.rd = 0 /\ qhist.before.rd = 3
    /\ Len(qhist.was) = 2
    /\ qhist.was[1] # qhist.was[2]
    /\ qhist.item = qhist.was[1]

\* C30: a queue made by NewQ(N), N a power of two, never holds more than
\* N-1 items; Enq fails exactly when N-1 are held, Deq fails (with nil)
\* exactly when none is held, and a failed call leaves the queue as it was.
C30_Capacity ==
    (queue # NoQ /\ IsPow2(qhist.n)) =>
        /\ Len(qhist.held) <= qhist.n - 1
        /\ size(queue) <= qhist.n - 1
        /\ qhist.op = "Enq" =>
              /\ ~qhist.ok <=> Len(qhist.was) = qhist.n - 1
              /\ ~qhist.ok => queue = qhist.before /\ qhist.held = qhist.was
        /\ qhist.op = "Deq" =>
              /\ ~qhist.ok <=> qhist.was = << >>
              /\ ~qhist.ok => /\ qhist.item = NilItem
                              /\ queue = qhist.before
                              /\ qhist.held = qhist.was

\* C30 witness: an Enq on a NewQ(4) holding three items was refused.
C30_Witness ==
    /\ queue # NoQ
    /\ qhist.n = 4
    /\ qhist.op = "Enq" /\ ~qhist.ok
    /\ Len(qhist.held) = 3
    /\ queue = qhist.before

\* C30 witness: a Deq on an empty queue that had been used before
C30_WitnessEmpty ==
    /\ queue # NoQ
    /\ qhist.n = 2
    /\ qhist.op = "Deq" /\ ~qhist.ok
    /\ qhist.item = NilItem
    /\ queue.rd = 1 /\ queue.wr = 1

\* C35: MmapReader(fd, 0, 0, h) with a SHA-512 writer ends as fileCksum
\* does on the same file: it fails exactly when fileCksum fails, and the
\* bytes it fed to the hash give the digest fileCksum returns.  (Refusals
\* of fstat and mmap by the system are left aside: they hit both alike.)
C35_SameDigestAsMmapReader ==
    ( /\ mr.pc = "done"
      /\ mr.fun = "MmapReader"
      /\ mr.off0 = 0 /\ mr.sz0 = 0
      /\ mr.err \in {"nil", "range"} ) =>
        LET r == fileCksum(fs, "f")
        IN  /\ mr.err = "nil" <=> r.err = "nil"
            /\ mr.err = "nil" => Sum512(mr.fed) = r.ck

\* C35 on files that are not empty
C35_SameDigestNonEmpty ==
    ( /\ mr.pc = "done"
      /\ mr.fun = "MmapReader"
      /\ mr.off0 = 0 /\ mr.sz0 = 0
      /\ mr.err \in {"nil", "range"}
      /\ Len(fs["f"].data) > 0 ) =>
        LET r == fileCksum(fs, "f")
        IN  /\ mr.err = "nil" /\ r.err = "nil"
            /\ Sum512(mr.fed) = r.ck

\* bn.key is a regular file that holds a whole private-key record of the
\* caller's key under the password of the last call
KeyComplete ==
    /\ fs["t.key"].kind = "file"
    /\ \E salt \in Salts :
          fs["t.key"].data = EncryptRecord(kp.Sec.Sk, "", res.pw, salt).out

\* C39: when Keypair.Serialize returns nil, bn.pub and bn.key are complete
\* regular files and neither temporary sibling is left; when bn.pub was
\* not written, the call returns an error and bn.key is as it was.
C39_PublicThenPrivate ==
    res.op = "Serialize" =>
        /\ res.err = "nil" =>
              /\ PubComplete(fs, kp, "")
              /\ KeyComplete
              /\ fs["t.pub.tmp"].kind = "none"
              /\ fs["t.key.tmp"].kind = "none"
        /\ ~res.pubDone => (res.err # "nil" /\ res.keyKept)

\* C39 for the failures writeFile reports: a failed creation or a short
\* write of bn.pub is returned and bn.key is left alone.
C39_ReportedFailureStops ==
    (res.op = "Serialize" /\ ~res.pubDone /\ res.err # "nil") => res.keyKept

\* C39 witness material: a Serialize that wrote both files
C39_BothWritten ==
    /\ res.op = "Serialize" /\ res.err = "nil"
    /\ PubComplete(fs, kp, "") /\ KeyComplete
    /\ Len(kp.Sec.Sk) = PrivateKeySize
    /\ fs["t.pub.tmp"].kind = "none" /\ fs["t.key.tmp"].kind = "none"

\* C37 as stated: Size() is the number of successful Enq calls less the
\* number of successful Deq calls since NewQ, and lies in 0..capacity-1;
\* IsEmpty() answers whether that is 0, IsFull() whether it is capacity-1.
C37_SizeSinceCreation ==
    queue # NoQ =>
        /\ qhist.op = "Size" =>
              /\ qhist.item = qhist.net
              /\ qhist.item \in 0..(Len(queue.q) - 1)
        /\ qhist.op = "IsEmpty" => (qhist.ok <=> size(queue) = 0)
        /\ qhist.op = "IsFull" =>
              (qhist.ok <=> size(queue) = Len(queue.q) - 1)

\* C37, amended: Size() is the number of successful Enq calls less the
\* number of successful Deq calls since NewQ or the last Flush; it is never
\* negative and never above capacity-1 (it is 0 for the queue without
\* slots that NewQ(0) makes); IsEmpty() answers whether it is 0, IsFull()
\* whether it is capacity-1, also when the write index is below the read
\* index.
C37_SizeSinceFlush ==
    queue # NoQ =>
        /\ qhist.op = "Size" =>
              /\ qhist.item = Len(qhist.held)
              /\ qhist.item >= 0
              /\ Len(queue.q) >= 1 => qhist.item <= Len(queue.q) - 1
        /\ qhist.op = "IsEmpty" => (qhist.ok <=> size(queue) = 0)
        /\ qhist.op = "IsFull" =>
              (qhist.ok <=> size(queue) = Len(queue.q) - 1)
        /\ size(queue) = Len(qhist.held)

\* C37 witness: Size() answered 2 on a queue of four slots whose write
\* index had wrapped below the read index, after a Flush had given up
\* items.
C37_Witness ==
    /\ queue # NoQ
    /\ Len(queue.q) = 4
    /\ qhist.op = "Size"
    /\ queue.wr < queue.rd
    /\ qhist.item = 2
    /\ Len(qhist.held) = 2
    /\ qhist.net > 2

\* C38: the array NewQ(n) makes has nextpow2(n) slots, n of them when n is
\* a power of two, and no Enq or Deq on it indexes outside the array.
C38_NewQSizes ==
    queue # NoQ =>
        /\ Len(queue.q) = nextpow2(qhist.n)
        /\ (qhist.n >= 1 /\ IsPow2(qhist.n)) => Len(queue.q) = qhist.n
        /\ ~qhist.panic

\* C38 for n >= 1: the smallest power of two that is at least n, and no
\* index outside the array
C38_PositiveSizes ==
    (queue # NoQ /\ qhist.n >= 1) =>
        /\ IsPow2(Len(queue.q))
        /\ Len(queue.q) >= qhist.n
        /\ Len(queue.q) < 2 * qhist.n
        /\ ~qhist.panic
        /\ queue.wr < Len(queue.q) /\ queue.rd < Len(queue.q)

RECURSIVE HeldCount(_, _)
\* the number of buffers the goroutines in P hold
HeldCount(r, P) ==
    IF P = {} THEN 0
    ELSE LET p == CHOOSE x \in P : TRUE
         IN  Cardinality(r.held[p]) + HeldCount(r, P \ {p})

\* C40: as long as no buffer is freed twice, the buffers waiting in the
\* ring and those held by callers are n together; a Get is blocked exactly
\* when no buffer is waiting, and a Free is never blocked.
C40_RingConservation ==
    (ring.made /\ ~ring.misuse) =>
        /\ Len(ring.q) + HeldCount(ring, Procs) = ring.Size
        /\ \A p \in Procs :
              /\ ring.g[p].pc = "get" =>
                    (~ENABLED GetRecv(p) <=> Len(ring.q) = 0)
              /\ ring.g[p].pc = "free" => ENABLED FreeSend(p)

\* C40 witness: of two buffers one goroutine holds both, after one of them
\* had been freed and handed out again, and the other goroutine is blocked
\* in Get.
C40_Witness ==
    /\ ring.made /\ ~ring.misuse
    /\ ring.Size = 2
    /\ ring.held[1] = {1, 2}
    /\ ring.q = << >>
    /\ ring.back[2] # {}
    /\ ring.g[2].pc = "get"
    /\ ~ENABLED GetRecv(2)

\* the proviso of C40 is needed: after a second Free of the same buffer a
\* Free can block
C40_FreeNeverBlocksAtAll ==
    \A p \in Procs : ring.g[p].pc = "free" => Len(ring.q) < ring.Size

\* one call run alone on queue w: the queue after it and what it returns
RunAlone(w, d) ==
    IF d.op = "Enq"
    THEN LET r == Enq(w, d.x) IN [w |-> r.w, ok |-> r.ok, item |-> NilItem]
    ELSE IF d.op = "Deq"
    THEN LET r == Deq(w) IN [w |-> r.w, ok |-> r.ok, item |-> r.item]
    ELSE [w |-> Flush(w), ok |-> TRUE, item |-> NilItem]

RECURSIVE RunInOrder(_, _, _)
\* the calls of the goroutines in ord, one after the other from w: the
\* queue at the end, and whether each returned what it returned in fact
RunInOrder(w, done, ord) ==
    IF ord = << >> THEN [w |-> w, same |-> TRUE]
    ELSE LET d == done[Head(ord)]
             r == RunAlone(w, d)
             t == RunInOrder(r.w, done, Tail(ord))
         IN  [w |-> t.w,
              same |-> r.ok = d.ok /\ r.item = d.item /\ t.same]

\* the orders in which the goroutines that made a call can be lined up
OrdersOf(done) ==
    LET P == {p \in Procs : done[p].op # ""}
    IN  {ord \in [1..Cardinality(P) -> P] :
            \A i, j \in 1..Cardinality(P) : i # j => ord[i] # ord[j]}

\* the calls made since all goroutines were outside have, in some order
\* one after the other, the results they had and leave the queue as it is
SomeOrderExplains ==
    \E ord \in OrdersOf(qhist.done) :
        LET r == RunInOrder(qhist.base, qhist.done, ord)
        IN  r.same /\ r.w = queue

\* C31: when calls of Enq, Deq and Flush from several goroutines have
\* returned, their results and the queue are those of the same calls made
\* one after the other in some order.
C31_AtomicOperations == QQuiet => SomeOrderExplains

\* what C31 gives as the reason: whoever is inside an operation holds the
\* queue's mutex
C31_UnderTheMutex ==
    \A p \in Procs : qhist.g[p].pc \notin {"idle", "lock"} => qhist.l = p

\* C31 for Enq and Deq alone
C31_EnqDeqAtomic ==
    (\A p \in Procs : qhist.g[p].op # "Flush" /\ qhist.done[p].op # "Flush")
        => /\ \A p \in Procs :
                 qhist.g[p].pc \notin {"idle", "lock"} => qhist.l = p
           /\ QQuiet => SomeOrderExplains

\* the result of C31's failure: a Flush and an Enq have both returned and
\* the queue holds more than either order leaves in it
C31_FlushResurrects ==
    ~ ( /\ QQuiet
        /\ qhist.done[1].op = "Flush" /\ qhist.done[2].op = "Enq"
        /\ qhist.done[2].ok
        /\ size(queue) > 1 )

\* C32: when Close on the top-level logger returns, the writer has
\* received every line that had entered the channel when it was closed,
\* in that order; and the file is closed only after the last line is
\* written.
C32_CloseDrains ==
    /\ \A p \in Procs :
          ( /\ lg.g[p].pc = "ret"
            /\ lg.g[p].op = "Close"
            /\ lg.g[p].l = "top" ) => lg.out = lg.atClose
    /\ lg.fileClosed => (lg.out = lg.accepted /\ lg.run.pc # "write")

\* C32 for the Close call that closed the channel itself
C32_ClosingCallDrains ==
    /\ \A p \in Procs :
          ( /\ lg.g[p].pc = "ret"
            /\ lg.g[p].op = "Close"
            /\ lg.g[p].l = "top"
            /\ lg.g[p].z = 0 ) => lg.out = lg.atClose
    /\ lg.fileClosed => (lg.out = lg.accepted /\ lg.run.pc # "write")

\* the goroutines inside the Writer's Write
InWrite ==
    {p \in Procs : lg.g[p].pc = "write"}
        \cup (IF lg.run.pc = "write" THEN {0} ELSE {})

\* C33: never are two goroutines inside Write; the lines written, the
\* line being written and the lines waiting in the channel are, in this
\* order, the lines that entered the channel, each once; when qrunner has
\* ended every one of them is written.
C33_SerializedWrites ==
    /\ Cardinality(InWrite) <= 1
    /\ lg.accepted =
          lg.out \o (IF lg.run.pc = "write" THEN << lg.run.s >> ELSE << >>)
                 \o lg.logch
    /\ \A i, j \in 1..Len(lg.out) : i # j => lg.out[i].id # lg.out[j].id
    /\ lg.run.pc = "done" => lg.out = lg.accepted

\* C33 witness: lines logged through the logger and through its
\* sub-logger by different goroutines are written, a third is in Write
\* while a caller is in the middle of a call.
C33_Witness ==
    /\ Len(lg.out) = 2
    /\ lg.out[1].l # lg.out[2].l
    /\ lg.run.pc = "write"
    /\ lg.run.s.id = 3
    /\ \E p \in Procs : lg.g[p].pc = "unlock"

\* C34: no line is written whose priority is below the priority of the
\* logger it was logged through.
C34_LevelFilter ==
    \A i \in 1..Len(lg.out) : lg.out[i].prio >= lg.out[i].lprio

\* C34 for Debug, Info, Warn, Error and Crit
C34_LevelMethodsFilter ==
    \A i \in 1..Len(lg.out) :
        AsksLoggable(lg.out[i].via) => lg.out[i].prio >= lg.out[i].lprio

\* C36: no goroutine sends on the closed log channel, and no line enters
\* the channel after it was closed.
C36_NoSendOnClosed ==
    /\ ~lg.panic
    /\ \A p \in Procs : lg.g[p].pc = "send" => lg.chOpen
    /\ ~lg.chOpen => lg.accepted = lg.atClose

\* C36 for the calls that go through qwrite
C36_QwriteNeverSendsOnClosed ==
    /\ \A p \in Procs :
          (lg.g[p].pc \in {"send", "panic"} /\ lg.g[p].op # "Backtrace")
              => lg.chOpen
    /\ ~lg.chOpen => lg.accepted = lg.atClose

====
